---- MODULE Spec2Model ----
(***************************************************************************)
(* Model of the trade-anomaly-detective detection and scoring pipeline:   *)
(* rule engine (rule_engine.py), external-reasoning adapter               *)
(* (llm_detector.py) and aggregator / accuracy evaluator                   *)
(* (report_generator.py).                                                  *)
(*                                                                         *)
(* Conventions                                                             *)
(*  - A Python list is a sequence, a dict that is only iterated in        *)
(*    insertion order is a sequence of its values.                         *)
(*  - A shipment identifier is a pair <<prefix, rest>>; the Python test   *)
(*    s.startswith(('MULTI-', 'CTRY-')) is a test on the prefix.           *)
(*  - Money is an integer number of 1/10000 USD (MoneyUnit per dollar),    *)
(*    so that 0.05 and 0.0501 are both representable.                      *)
(*  - A ratio is a record [num, den] with den > 0; 0 is [num |-> 0,        *)
(*    den |-> 1].                                                          *)
(***************************************************************************)
EXTENDS Integers, Sequences, FiniteSets, TLC

VARIABLES
    pc,              \* position of the modelled call
    all_raw,         \* report_generator.run_full_pipeline: all_raw / deduplicate_anomalies argument
    all_dedupe,      \* report_generator.run_full_pipeline: all_dedupe / deduplicate_anomalies result
    shipments_df,    \* the shipment table handed to a detection layer
    buyers_df,       \* the buyer table handed to the statistical layer, by buyer name
    rule_anomalies,  \* result of rule_engine.run_rule_checks
    api_key,         \* llm_detector._get_api_key() finds a key
    attempt,         \* llm_detector.call_openrouter: loop variable `attempt`
    sleeps,          \* llm_detector.call_openrouter: the time.sleep(seconds) calls made, in order
    response,        \* llm_detector.validate_hs_codes: what call_openrouter returned
    llm_anomalies,   \* result of llm_detector.validate_hs_codes
    raised,          \* the exception that left the modelled call ("none" when it returned)
    stat_anomalies,  \* result of statistical_detector.run_statistical_checks
    planted_file,    \* data/planted_anomalies.json: whether it exists, and its entries
    anomaly_report,  \* what generate_anomaly_report returned
    accuracy_report, \* what generate_accuracy_report returned
    files,           \* the output files written so far
    series,          \* statistical_detector.zscore: the values of the group
    mean_error,      \* the sign of the rounding error of the float mean of the group
    zscores,         \* what zscore returned
    usage_log,       \* llm_detector.usage_log: the counters of the usage ledger
    task_name,       \* llm_detector.call_openrouter: the task of the call under way
    call_no,         \* the number of call_openrouter calls the process has begun
    summary_prompt   \* llm_detector.generate_executive_summary: the totals its prompt states

vars == <<pc, all_raw, all_dedupe, shipments_df, buyers_df, rule_anomalies,
          api_key, attempt, sleeps, response, llm_anomalies, raised,
          stat_anomalies, planted_file, anomaly_report, accuracy_report, files,
          series, mean_error, zscores, usage_log, task_name, call_no,
          summary_prompt>>

dedupVars == <<all_raw, all_dedupe>>
tableVars == <<shipments_df, buyers_df>>
ruleVars == <<tableVars, rule_anomalies>>
ledgerVars == <<usage_log, task_name, call_no>>
callVars == <<api_key, attempt, sleeps, response, ledgerVars>>
llmVars == <<api_key, attempt, sleeps, response, llm_anomalies, ledgerVars>>
aggVars == <<stat_anomalies, planted_file, anomaly_report, accuracy_report, files>>
zVars == <<series, mean_error, zscores>>
extraVars == <<zVars, summary_prompt>>

NoReport == [written |-> FALSE]

NoPrompt == [built |-> FALSE]

ManifestFile(planted) == [exists |-> TRUE, planted |-> planted]

NoManifestFile == [exists |-> FALSE, planted |-> <<>>]

NoResponse == [head |-> "", rest |-> ""]

\* usage_log as the module creates it: no call, no token, no task
NewLedger ==
    [total_calls |-> 0, input |-> 0, output |-> 0, total |-> 0, breakdown_by_task |-> <<>>]

\* the variables of the components a specification does not exercise
DedupIdle == all_raw = <<>> /\ all_dedupe = <<>>
RuleIdle == rule_anomalies = <<>>
LlmIdle ==
    /\ api_key = FALSE /\ attempt = 0 /\ sleeps = <<>>
    /\ response = NoResponse /\ llm_anomalies = <<>>
    /\ usage_log = NewLedger /\ task_name = "" /\ call_no = 0
AggIdle ==
    /\ stat_anomalies = <<>> /\ planted_file = NoManifestFile
    /\ anomaly_report = NoReport /\ accuracy_report = NoReport /\ files = {}
ZIdle == series = <<>> /\ mean_error = 0 /\ zscores = <<>>
ExtraIdle == ZIdle /\ summary_prompt = NoPrompt

\* ------------------------------------------------------------------------
\* Bounds of the model
\* ------------------------------------------------------------------------
MaxAnoms == 3
MaxRows == 1

\* ------------------------------------------------------------------------
\* Generic helpers
\* ------------------------------------------------------------------------
Range(s) == {s[i] : i \in 1..Len(s)}

SeqsUpTo(S, n) == UNION {[1..k -> S] : k \in 0..n}

\* ------------------------------------------------------------------------
\* Anomaly records (rule_engine.make_anomaly, statistical_detector.make_anomaly,
\* llm_detector.validate_hs_codes all build the same dict shape)
\* ------------------------------------------------------------------------
Layers == {"rule_based", "statistical", "trend", "llm"}

\* a key that ignores the sub_type
KeyShipmentOnly(a) == <<a.shipment_id>>

Key(a) == <<a.shipment_id, a.sub_type>>

MkAnomaly(id, layer, sid, cat, sub, sev, pen, nev) ==
    [anomaly_id |-> id, layer |-> layer, shipment_id |-> sid, category |-> cat,
     sub_type |-> sub, severity |-> sev, estimated_penalty_usd |-> pen,
     evidence_count |-> nev]

\* ------------------------------------------------------------------------
\* report_generator.deduplicate_anomalies
\* ------------------------------------------------------------------------
\* priority = {"llm": 4, "trend": 3.5, "statistical": 2, "rule_based": 1},
\* priority.get(layer, 1); every value is doubled to stay in the integers.
PriorityFirstWins(layer) == 2

Priority(layer) ==
    CASE layer = "llm" -> 8
      [] layer = "trend" -> 7
      [] layer = "statistical" -> 4
      [] layer = "rule_based" -> 2
      [] OTHER -> 2

\* position of key k in the dict `seen` (0 when absent)
SeenIndex(seen, k) ==
    IF \E i \in 1..Len(seen) : Key(seen[i]) = k
    THEN CHOOSE i \in 1..Len(seen) : Key(seen[i]) = k
    ELSE 0

\* one iteration of the loop `for a in all_anomalies`
DedupStep(seen, a) ==
    LET i == SeenIndex(seen, Key(a)) IN
    IF i = 0 THEN Append(seen, a)
    ELSE IF Priority(a.layer) > Priority(seen[i].layer)
         THEN [seen EXCEPT ![i] = a]
         ELSE seen

RECURSIVE DedupFrom(_, _, _)
DedupFrom(all, i, seen) ==
    IF i > Len(all) THEN seen
    ELSE DedupFrom(all, i + 1, DedupStep(seen, all[i]))

deduplicate_anomalies(all_anomalies) == DedupFrom(all_anomalies, 1, <<>>)

\* ------------------------------------------------------------------------
\* Specification SpecDedup: deduplicate_anomalies applied to any list
\* ------------------------------------------------------------------------
DedupIds == {<<"SHP-", 1>>, <<"SHP-", 2>>}

DedupPool ==
    {MkAnomaly(<<l, n>>, l, sid, "pricing", "price_outlier", "high", 2000, 5) :
        l \in Layers, sid \in DedupIds, n \in 1..1}
    \cup {MkAnomaly(<<"statistical", 2>>, "statistical", <<"SHP-", 1>>, "pricing",
                    "price_outlier", "critical", 8000, 5),
          MkAnomaly(<<"rule_based", 2>>, "rule_based", <<"SHP-", 1>>, "pricing",
                    "fob_math_error", "critical", 5000, 5)}

InitDedup ==
    /\ pc = "dedup_call"
    /\ all_raw \in SeqsUpTo(DedupPool, MaxAnoms)
    /\ all_dedupe = <<>>
    /\ shipments_df = <<>> /\ buyers_df = <<>> /\ RuleIdle /\ LlmIdle /\ AggIdle
    /\ raised = "none"
    /\ ExtraIdle

DeduplicateCall ==
    /\ pc = "dedup_call"
    /\ all_dedupe' = deduplicate_anomalies(all_raw)
    /\ pc' = "dedup_done"
    /\ UNCHANGED <<all_raw, ruleVars, extraVars, llmVars, raised, aggVars>>

NextDedup == DeduplicateCall

SpecDedup == InitDedup /\ [][NextDedup]_vars

\* ------------------------------------------------------------------------
\* C1: deduplicate_anomalies returns exactly one anomaly for every
\* (shipment_id, sub_type) key of the input and nothing else, and the
\* anomaly kept for a key is an input anomaly of the highest-priority layer
\* that reported the key (llm > trend > statistical > rule_based), wherever
\* it stands in the input.
\* ------------------------------------------------------------------------
LayerRank == <<"rule_based", "statistical", "trend", "llm">>

RankOf(layer) == CHOOSE r \in 1..4 : LayerRank[r] = layer

C1_DedupKeepsHighestLayer ==
    pc = "dedup_done" =>
        /\ {Key(a) : a \in Range(all_dedupe)} = {Key(a) : a \in Range(all_raw)}
        /\ \A i, j \in 1..Len(all_dedupe) :
               Key(all_dedupe[i]) = Key(all_dedupe[j]) => i = j
        /\ Range(all_dedupe) \subseteq Range(all_raw)
        /\ \A k \in Range(all_dedupe) : \A a \in Range(all_raw) :
               Key(a) = Key(k) => RankOf(a.layer) <= RankOf(k.layer)

\* a statistical and an llm anomaly with the same key, statistical first:
\* the llm one replaced it
C1_Witness ==
    /\ pc = "dedup_done"
    /\ Len(all_raw) = 2
    /\ all_raw[1].layer = "statistical" /\ all_raw[2].layer = "llm"
    /\ Key(all_raw[1]) = Key(all_raw[2])
    /\ all_dedupe = <<all_raw[2]>>

\* ------------------------------------------------------------------------
\* rule_engine.run_rule_checks
\* ------------------------------------------------------------------------
MoneyUnit == 100 * 100

Abs(x) == IF x < 0 THEN 0 - x ELSE x

\* Series.round(2): nearest cent, a tie goes to the even cent
Round2(x) ==
    LET cents == x \div 100
        r == x % 100
    IN  IF r < 50 THEN cents * 100
        ELSE IF r > 50 THEN (cents + 1) * 100
        ELSE IF cents % 2 = 0 THEN cents * 100 ELSE (cents + 1) * 100

expected_fob(row) == Round2(row.quantity * row.unit_price_usd)

fob_diff(row) == Abs(row.total_fob_usd - expected_fob(row))

\* fob_errors = df[df['fob_diff'] > 0.05]
IsFobError(row) == fob_diff(row) > 500

\* the status alone
IsRejected(row) == row.customs_status = "rejected"

IsDrawbackOnRejected(row) ==
    row.customs_status = "rejected" /\ row.drawback_amount_usd > 0

IsReceivedNull(row) ==
    row.payment_status = "received" /\ row.days_to_payment = <<>>

\* the incoterm alone
IsCif(row) == row.incoterm = "CIF"

IsCifNoFreight(row) ==
    row.incoterm = "CIF" /\ row.freight_cost_usd = 0

\* insurance_rate = insurance_usd / total_fob_usd * 100, on rows with total_fob_usd > 0
InsuranceOver(row) == row.insurance_usd * 1000 > 8 * row.total_fob_usd

\* the lower edge of the band put at 0.1%
InsuranceUnderTenth(row) == row.insurance_usd * 1000 < row.total_fob_usd

InsuranceUnder(row) == row.insurance_usd * 2000 < row.total_fob_usd

IsInsuranceAnomaly(row) ==
    /\ row.total_fob_usd > 0
    /\ InsuranceOver(row) \/ (InsuranceUnder(row) /\ row.insurance_usd > 0)

\* the five checks in the order the function runs them
RuleChecks == <<"fob_math_error", "drawback_on_rejected", "received_null_days",
                "cif_zero_freight", "insurance_rate_error">>

RuleFires(sub, row) ==
    CASE sub = "fob_math_error" -> IsFobError(row)
      [] sub = "drawback_on_rejected" -> IsDrawbackOnRejected(row)
      [] sub = "received_null_days" -> IsReceivedNull(row)
      [] sub = "cif_zero_freight" -> IsCifNoFreight(row)
      [] sub = "insurance_rate_error" -> IsInsuranceAnomaly(row)

\* make_anomaly as each check calls it; n is counter[0] after the increment
RuleAnomaly(sub, row, n) ==
    CASE sub = "fob_math_error" ->
            MkAnomaly(<<"RULE-", n>>, "rule_based", row.shipment_id, "pricing", sub,
                      "critical", 5000, 5)
      [] sub = "drawback_on_rejected" ->
            MkAnomaly(<<"RULE-", n>>, "rule_based", row.shipment_id, "compliance", sub,
                      "critical", (row.drawback_amount_usd * 3) \div MoneyUnit, 3)
      [] sub = "received_null_days" ->
            MkAnomaly(<<"RULE-", n>>, "rule_based", row.shipment_id, "payment", sub,
                      "medium", 500, 3)
      [] sub = "cif_zero_freight" ->
            MkAnomaly(<<"RULE-", n>>, "rule_based", row.shipment_id, "cross_field", sub,
                      "high", 2500, 3)
      [] sub = "insurance_rate_error" ->
            MkAnomaly(<<"RULE-", n>>, "rule_based", row.shipment_id, "cross_field", sub,
                      IF InsuranceOver(row) THEN "medium" ELSE "low", 500, 4)

\* the (check, row) pairs that emit, check by check and row by row
RECURSIVE RuleHits(_, _, _)
RuleHits(df, c, i) ==
    IF c > Len(RuleChecks) THEN <<>>
    ELSE IF i > Len(df) THEN RuleHits(df, c + 1, 1)
    ELSE (IF RuleFires(RuleChecks[c], df[i]) THEN <<<<RuleChecks[c], df[i]>>>> ELSE <<>>)
         \o RuleHits(df, c, i + 1)

run_rule_checks(df) ==
    LET hits == RuleHits(df, 1, 1)
    IN  [n \in 1..Len(hits) |-> RuleAnomaly(hits[n][1], hits[n][2], n)]

\* ------------------------------------------------------------------------
\* Specification SpecRule: run_rule_checks applied to a shipment table
\* ------------------------------------------------------------------------
BaseRow ==
    [shipment_id |-> <<"SHP-", 1>>, quantity |-> 1, unit_price_usd |-> 10000,
     total_fob_usd |-> 10000, customs_status |-> "approved",
     drawback_amount_usd |-> 0, payment_status |-> "pending", days_to_payment |-> <<>>,
     incoterm |-> "FOB", freight_cost_usd |-> 12000000, insurance_usd |-> 20]

\* rows that differ in the three FOB columns: unit prices of 0.004, 0.005, 0.015
\* and 1.00 USD, declared values around the tolerance
FobPrices == {40, 50, 150, 10000}

FobTotals == {0, 460, 500, 501, 540, 541, 10000, 10500, 10501, 19499, 19500,
              20000, 20500, 20501}

FobRows ==
    {[BaseRow EXCEPT !.quantity = q, !.unit_price_usd = p, !.total_fob_usd = t,
                     !.insurance_usd = 0] :
        q \in 1..2, p \in FobPrices, t \in FobTotals}

OtherRows ==
    {[BaseRow EXCEPT !.customs_status = "rejected", !.drawback_amount_usd = 1234500],
     [BaseRow EXCEPT !.payment_status = "received"],
     [BaseRow EXCEPT !.incoterm = "CIF", !.freight_cost_usd = 0],
     [BaseRow EXCEPT !.insurance_usd = 200]}

\* insurance of 0%, 0.04%, 0.05%, 0.5%, 0.8% and 0.81% of a declared value of
\* 1 USD, and the same premiums on a declared value of 0
InsuranceRows ==
    {[BaseRow EXCEPT !.shipment_id = <<"SHP-", 2>>, !.insurance_usd = ins,
                     !.total_fob_usd = fob, !.unit_price_usd = fob] :
        ins \in {0, 4, 5, 50, 80, 81}, fob \in {0, 10000}}

\* rows that differ in the customs status, the drawback claimed (0, 0.3333,
\* 100.00 and 123.45 USD), the incoterm and the freight cost
ComplianceRows ==
    {[BaseRow EXCEPT !.shipment_id = <<"SHP-", 3>>, !.customs_status = status,
                     !.drawback_amount_usd = drawback, !.incoterm = incoterm,
                     !.freight_cost_usd = freight] :
        status \in {"approved", "rejected", "pending"},
        drawback \in {0, 3333, 1000000, 1234500},
        incoterm \in {"FOB", "CIF"}, freight \in {0, 100, 12000000}}

RuleRows == FobRows \cup OtherRows \cup InsuranceRows \cup ComplianceRows

InitRule ==
    /\ pc = "rule_call"
    /\ shipments_df \in SeqsUpTo(RuleRows, MaxRows)
    /\ buyers_df = <<>>
    /\ rule_anomalies = <<>>
    /\ DedupIdle /\ LlmIdle /\ AggIdle
    /\ raised = "none"
    /\ ExtraIdle

RunRuleChecks ==
    /\ pc = "rule_call"
    /\ rule_anomalies' = run_rule_checks(shipments_df)
    /\ pc' = "rule_done"
    /\ UNCHANGED <<tableVars, extraVars, dedupVars, llmVars, raised, aggVars>>

NextRule == RunRuleChecks

SpecRule == InitRule /\ [][NextRule]_vars

\* ------------------------------------------------------------------------
\* C2: for all shipments run_rule_checks emits a fob_math_error anomaly for
\* the shipment if and only if |total_fob_usd - quantity x unit_price_usd|
\* > 0.05; a difference of exactly 0.05 does not fire, 0.0501 fires.
\* ------------------------------------------------------------------------
FobFlagged(i) ==
    \E a \in Range(rule_anomalies) :
        a.sub_type = "fob_math_error" /\ a.shipment_id = shipments_df[i].shipment_id

TrueFobDiff(row) == Abs(row.total_fob_usd - row.quantity * row.unit_price_usd)

C2_FobIffExactDifference ==
    pc = "rule_done" =>
        \A i \in 1..Len(shipments_df) :
            FobFlagged(i) <=> TrueFobDiff(shipments_df[i]) > 500

\* ------------------------------------------------------------------------
\* llm_detector: the text returned by the external capability
\* ------------------------------------------------------------------------
\* A string value is a token and whether it carries surrounding blanks.
Text(s, pad) == [s |-> s, pad |-> pad]

\* str(x).strip()
Strip(v) == [v EXCEPT !.pad = FALSE]

\* One verdict object. shipment_id <<>>: the key is absent. is_correct is
\* "false", "true", "null" or "absent" (the key is missing).
Verdict(sid, hs, product, is_correct) ==
    [shipment_id |-> sid, hs_code |-> hs, product |-> product, is_correct |-> is_correct]

\* JSON documents
JNum == [t |-> "num"]
JNull == [t |-> "null"]
JBool == [t |-> "bool"]
JStr(n) == [t |-> "str", len |-> n]
JObj(v) == [t |-> "obj", v |-> v]
JArr(items) == [t |-> "array", items |-> items]
JErr == [t |-> "error"]

\* Text that json.loads rejects. lead: it starts with "["; fixed: what
\* json.loads gives after the quote-escaping substitution of strategy 4
\* (JErr when it still fails); manual: the records the field-level regular
\* expressions of strategy 5 recover.
Broken(lead, fixed, manual) ==
    [t |-> "broken", lead |-> lead, fixed |-> fixed, manual |-> manual]

\* the first characters of a response text
FirstChars(wrap, payload) ==
    CASE wrap = "fenced" -> "fence"
      [] wrap = "prose" -> "Here"
      [] OTHER -> payload.t

TextResponse(wrap, payload) ==
    [head |-> FirstChars(wrap, payload), wrap |-> wrap, payload |-> payload]

Sentinel(rest) == [head |-> "[LLM", rest |-> rest]

\* ------------------------------------------------------------------------
\* llm_detector.extract_json_from_response
\* ------------------------------------------------------------------------
Ret(v) == [ok |-> TRUE, val |-> v]

Raise(e) == [ok |-> FALSE, exc |-> e]

\* Strategies 1 and 2: the code fence or the surrounding prose is removed
\* only when an array text "[" ... "]" is found inside it.
Unwrapped(wrap, payload) ==
    \/ wrap = "bare"
    \/ payload.t = "array"
    \/ (payload.t = "broken" /\ payload.lead)

\* strategy 5 on one complete object: it needs "is_correct": false and the
\* three quoted fields shipment_id, hs_code, product
ManualEntries(payload) ==
    CASE payload.t = "obj" ->
            IF payload.v.is_correct = "false" /\ payload.v.shipment_id # <<>>
            THEN <<[payload.v EXCEPT !.product = Strip(@)]>>
            ELSE <<>>
      [] payload.t = "broken" -> payload.manual
      [] OTHER -> <<>>

Clean(wrap, payload) ==
    IF Unwrapped(wrap, payload) THEN payload
    ELSE Broken(FALSE, JErr, ManualEntries(payload))

\* results = json.loads(...); a dict is wrapped in a list; len(results) for the
\* log line raises TypeError on a number, null or a boolean
Loads(doc) ==
    IF doc.t = "obj" THEN Ret(JArr(<<doc>>))
    ELSE IF doc.t \in {"num", "null", "bool"} THEN Raise("TypeError")
    ELSE Ret(doc)

extract_json_from_response(resp) ==
    LET clean == Clean(resp.wrap, resp.payload)
    IN  IF clean.t # "broken"
        THEN Loads(clean)                       \* strategy 3; only JSONDecodeError is caught
        ELSE LET s4 == IF clean.fixed.t = "error" THEN Raise("JSONDecodeError")
                       ELSE Loads(clean.fixed)  \* strategy 4, inside try/except: pass
             IN  IF s4.ok THEN s4
                 ELSE IF clean.manual # <<>>
                      THEN Ret(JArr([i \in 1..Len(clean.manual) |-> JObj(clean.manual[i])]))
                      ELSE Ret(JArr(<<>>))

\* ------------------------------------------------------------------------
\* llm_detector.validate_hs_codes, after call_openrouter has returned
\* ------------------------------------------------------------------------
\* not item.get("is_correct", True)
IsIncorrect(item) == item.is_correct \in {"false", "null"}

\* item.get(shipment_id, UNKNOWN)
VerdictId(item) ==
    IF item.shipment_id = <<>> THEN <<"UNKNOWN", 0>> ELSE item.shipment_id

ExactRows(df, item) ==
    SelectSeq(df, LAMBDA r : /\ Strip(r.hs_code) = Strip(item.hs_code)
                             /\ Strip(r.product_description) = Strip(item.product))

HsRows(df, item) ==
    SelectSeq(df, LAMBDA r : Strip(r.hs_code) = Strip(item.hs_code))

AffectedExactOnly(df, item) == ExactRows(df, item)

\* the exact match first, then the match on the HS code alone
Affected(df, item) ==
    IF Len(ExactRows(df, item)) = 0 THEN HsRows(df, item) ELSE ExactRows(df, item)

LlmAnomaly(n, sid) ==
    MkAnomaly(<<"LLM-", n>>, "llm", sid, "compliance", "hs_code_mismatch",
              "critical", 6000, 5)

\* the anomalies appended for one incorrect item; n is counter[0]
ItemAnomalies(df, item, n) ==
    LET affected == Affected(df, item)
    IN  IF Len(affected) = 0 THEN <<LlmAnomaly(n, VerdictId(item))>>
        ELSE [i \in 1..Len(affected) |-> LlmAnomaly(n, affected[i].shipment_id)]

RECURSIVE ItemsFrom(_, _, _, _)
ItemsFrom(df, items, i, counter) ==
    IF i > Len(items) THEN <<>>
    ELSE IF IsIncorrect(items[i].v)
         THEN ItemAnomalies(df, items[i].v, counter + 1)
              \o ItemsFrom(df, items, i + 1, counter + 1)
         ELSE ItemsFrom(df, items, i + 1, counter)

\* `if not results`
Falsy(doc) ==
    \/ (doc.t = "array" /\ doc.items = <<>>)
    \/ (doc.t = "str" /\ doc.len = 0)

\* lines 303-380: [anomalies, raised]
ValidateResponse(df, resp) ==
    IF resp.head = "[LLM" THEN [anomalies |-> <<>>, raised |-> "none"]
    ELSE LET r == extract_json_from_response(resp)
         IN  IF ~r.ok THEN [anomalies |-> <<>>, raised |-> r.exc]
             ELSE IF Falsy(r.val) THEN [anomalies |-> <<>>, raised |-> "none"]
             ELSE IF r.val.t = "str"      \* the items are characters: item.get fails
                  THEN [anomalies |-> <<>>, raised |-> "AttributeError"]
             ELSE IF \E i \in 1..Len(r.val.items) : r.val.items[i].t # "obj"
                  THEN [anomalies |-> <<>>, raised |-> "AttributeError"]
             ELSE [anomalies |-> ItemsFrom(df, r.val.items, 1, 0), raised |-> "none"]

\* ------------------------------------------------------------------------
\* llm_detector.call_openrouter: one action per way an attempt can end
\* ------------------------------------------------------------------------
max_retries == 3

RECURSIVE Pow2(_)
Pow2(n) == IF n = 0 THEN 1 ELSE 2 * Pow2(n - 1)

llmFrame == <<tableVars, extraVars, llm_anomalies, raised, dedupVars, rule_anomalies, aggVars>>

\* _ensure_task_exists(task_name)
Ensured(log, task) ==
    IF task \in DOMAIN log.breakdown_by_task THEN log
    ELSE [log EXCEPT !.breakdown_by_task = @ @@ (task :> [calls |-> 0, tokens |-> 0])]

\* The "usage" object of a response body: a token count is a number, or
\* null, or its key is missing (the whole object may be missing); words is
\* then the number of words of the prompt or of the text.
Count(n) == [t |-> "int", n |-> n]

NullCount == [t |-> "null"]

MissingCount(words) == [t |-> "absent", words |-> words]

Usage(prompt, completion) == [prompt_tokens |-> prompt, completion_tokens |-> completion]

NoUsage(prompt_words, text_words) ==
    Usage(MissingCount(prompt_words), MissingCount(text_words))

\* result.get("usage", {}).get(key, len(words) * 4 // 3), for a count that is not null
Tokens(count) == IF count.t = "int" THEN count.n ELSE (count.words * 4) \div 3

HasNull(usage) == usage.prompt_tokens.t = "null" \/ usage.completion_tokens.t = "null"

\* the six updates of the ledger, lines 127 to 132
Recorded(log, task, input_tokens, output_tokens) ==
    [log EXCEPT !.total_calls = @ + 1,
                !.input = @ + input_tokens,
                !.output = @ + output_tokens,
                !.total = @ + input_tokens + output_tokens,
                !.breakdown_by_task[task].calls = @ + 1,
                !.breakdown_by_task[task].tokens = @ + input_tokens + output_tokens]

\* the updates made before "+= None" raises TypeError: total_calls, and the
\* input tokens when only the completion count is null
PartlyRecorded(log, usage) ==
    IF usage.prompt_tokens.t = "null" THEN [log EXCEPT !.total_calls = @ + 1]
    ELSE [log EXCEPT !.total_calls = @ + 1, !.input = @ + Tokens(usage.prompt_tokens)]

\* if not api_key: return "[LLM UNAVAILABLE - ...]"
CallNoApiKey ==
    /\ pc = "llm_call" /\ ~api_key
    /\ response' = Sentinel(" UNAVAILABLE - Set OPENROUTER_API_KEY")
    /\ usage_log' = Ensured(usage_log, task_name)
    /\ pc' = "llm_response"
    /\ UNCHANGED <<api_key, attempt, sleeps, task_name, call_no, llmFrame>>

\* requests.post succeeded and the body held a text: record the usage,
\* return text
AttemptSucceeds(text, usage) ==
    /\ pc = "llm_call" /\ api_key /\ attempt < max_retries
    /\ ~HasNull(usage)
    /\ response' = text
    /\ usage_log' = Recorded(Ensured(usage_log, task_name), task_name,
                             Tokens(usage.prompt_tokens), Tokens(usage.completion_tokens))
    /\ pc' = "llm_response"
    /\ UNCHANGED <<api_key, attempt, sleeps, task_name, call_no, llmFrame>>

\* except requests.exceptions.HTTPError
AttemptHttpError(status) ==
    /\ pc = "llm_call" /\ api_key /\ attempt < max_retries
    /\ sleeps' = IF status = 429 THEN Append(sleeps, 5) ELSE sleeps
    /\ usage_log' = Ensured(usage_log, task_name)
    /\ IF attempt = max_retries - 1
       THEN /\ response' = Sentinel(" ERROR: HTTP")
            /\ pc' = "llm_response"
            /\ UNCHANGED attempt
       ELSE /\ attempt' = attempt + 1
            /\ UNCHANGED <<response, pc>>
    /\ UNCHANGED <<api_key, task_name, call_no, llmFrame>>

\* the end of an attempt in "except Exception"
ExceptionHandled ==
    IF attempt < max_retries - 1
    THEN /\ sleeps' = Append(sleeps, Pow2(attempt))
         /\ attempt' = attempt + 1
         /\ UNCHANGED <<response, pc>>
    ELSE /\ response' = Sentinel(" ERROR: ")
         /\ pc' = "llm_response"
         /\ UNCHANGED <<attempt, sleeps>>

\* except Exception (connection error, timeout, malformed body), raised
\* before the ledger is touched
AttemptException ==
    /\ pc = "llm_call" /\ api_key /\ attempt < max_retries
    /\ usage_log' = Ensured(usage_log, task_name)
    /\ ExceptionHandled
    /\ UNCHANGED <<api_key, task_name, call_no, llmFrame>>

\* except Exception, raised by the ledger update itself: the body held a
\* text and a token count that is null
AttemptLedgerUpdateRaises(usage) ==
    /\ pc = "llm_call" /\ api_key /\ attempt < max_retries
    /\ HasNull(usage)
    /\ usage_log' = PartlyRecorded(Ensured(usage_log, task_name), usage)
    /\ ExceptionHandled
    /\ UNCHANGED <<api_key, task_name, call_no, llmFrame>>

\* The statement after the loop, return "[LLM MAX RETRIES EXCEEDED]", is
\* reached only when the loop body never returns, which needs max_retries < 1;
\* with the default of 3 the last iteration always returns, so it is no action.

\* validate_hs_codes from the sentinel test to its return
ValidateHsCodes ==
    /\ pc = "llm_response"
    /\ LET v == ValidateResponse(shipments_df, response)
       IN  /\ raised' = v.raised
           /\ llm_anomalies' = v.anomalies
           /\ pc' = IF v.raised = "none" THEN "llm_done" ELSE "llm_raised"
    /\ UNCHANGED <<callVars, tableVars, extraVars, dedupVars, rule_anomalies, aggVars>>

\* ------------------------------------------------------------------------
\* Specification SpecLLM: validate_hs_codes on a shipment table
\* ------------------------------------------------------------------------
MaxVerdicts == 2

HS6109 == Text("61091000", FALSE)
HS8471 == Text("84713000", FALSE)
HS9999 == Text("99999999", FALSE)
Tshirt == Text("Cotton T-shirts", FALSE)
Laptop == Text("Laptop computers", FALSE)
Tee == Text("T-shirts", FALSE)

LlmRow(n, hs, product) ==
    [shipment_id |-> <<"SHP-", n>>, hs_code |-> hs, product_description |-> product]

LlmTables ==
    {<<>>,
     <<LlmRow(1, HS6109, Tshirt), LlmRow(4, HS6109, Tshirt)>>,
     <<LlmRow(2, HS8471, Tshirt), LlmRow(3, HS8471, Laptop)>>,
     <<LlmRow(1, HS6109, Tshirt), LlmRow(2, HS8471, Tshirt), LlmRow(3, HS8471, Laptop)>>}

VerdictPool ==
    {Verdict(<<"SHP-", 2>>, HS8471, Tshirt, "false"),
     Verdict(<<"SHP-", 9>>, HS8471, Tee, "false"),
     Verdict(<<>>, HS9999, Tshirt, "false"),
     Verdict(<<"SHP-", 1>>, Text("61091000", TRUE), Text("Cotton T-shirts", TRUE), "null"),
     Verdict(<<"SHP-", 3>>, HS8471, Laptop, "true"),
     Verdict(<<"SHP-", 1>>, HS6109, Tshirt, "absent")}

ItemPool == {JObj(v) : v \in VerdictPool} \cup {JNum}

BrokenPool ==
    {Broken(l, f, m) :
        l \in {TRUE},
        f \in {JErr, JNum, JStr(1), JArr(<<JObj(Verdict(<<"SHP-", 2>>, HS8471, Tshirt, "false"))>>)},
        m \in {<<>>, <<Verdict(<<"SHP-", 9>>, HS8471, Tee, "false")>>}}

Payloads ==
    {JArr(items) : items \in SeqsUpTo(ItemPool, MaxVerdicts)}
    \cup {JObj(v) : v \in VerdictPool}
    \cup {JNum, JNull, JBool, JStr(0), JStr(3)}
    \cup BrokenPool

ResponseTexts == {TextResponse(w, p) : w \in {"bare", "fenced", "prose"}, p \in Payloads}

InitLLM ==
    /\ pc = "llm_call"
    /\ shipments_df \in LlmTables
    /\ buyers_df = <<>>
    /\ api_key \in BOOLEAN
    /\ attempt = 0 /\ sleeps = <<>>
    /\ response = NoResponse /\ llm_anomalies = <<>>
    /\ usage_log = NewLedger /\ task_name = "hs_code_validation" /\ call_no = 1
    /\ DedupIdle /\ RuleIdle /\ AggIdle
    /\ raised = "none"
    /\ ExtraIdle

NextLLM ==
    \/ CallNoApiKey
    \/ \E text \in ResponseTexts : AttemptSucceeds(text, NoUsage(40, 30))
    \/ \E status \in {429, 500} : AttemptHttpError(status)
    \/ AttemptException
    \/ ValidateHsCodes

SpecLLM == InitLLM /\ [][NextLLM]_vars

\* ------------------------------------------------------------------------
\* C3: when the response text cannot be parsed into a list of verdict
\* records (malformed text, or valid JSON that is not an array of objects:
\* a bare number, null, a string, an array of non-objects),
\* extract_json_from_response / validate_hs_codes return an empty list and
\* never raise.
\* ------------------------------------------------------------------------
LlmEnded == pc \in {"llm_done", "llm_raised"}

NotVerdictList(resp) ==
    LET p == resp.payload
    IN  \/ p.t \in {"num", "null", "bool", "str"}
        \/ (p.t = "array" /\ \E i \in 1..Len(p.items) : p.items[i].t # "obj")
        \/ (p.t = "broken" /\ p.fixed.t \notin {"array", "obj"} /\ p.manual = <<>>)

C3_UnparseableYieldsEmptyList ==
    (LlmEnded /\ response.head # "[LLM" /\ NotVerdictList(response))
        => (pc = "llm_done" /\ raised = "none" /\ llm_anomalies = <<>>)

\* ------------------------------------------------------------------------
\* C4: call_openrouter makes at most max_retries attempts, waits an
\* exponentially growing delay between consecutive failed attempts, and
\* always ends by returning the response text or a sentinel beginning with
\* "[LLM"; validate_hs_codes turns every sentinel into an empty list.
\* ------------------------------------------------------------------------
\* every failed attempt that is followed by another one was followed by a
\* wait, and each wait doubles the one before
BackoffIsExponential ==
    /\ Len(sleeps) = attempt
    /\ \A i \in 1..(Len(sleeps) - 1) : sleeps[i + 1] = 2 * sleeps[i]

C4_BoundedRetriesExponentialBackoff ==
    /\ attempt < max_retries
    /\ pc = "llm_call" => BackoffIsExponential
    /\ (LlmEnded /\ response.head = "[LLM")
           => (pc = "llm_done" /\ llm_anomalies = <<>>)

\* ------------------------------------------------------------------------
\* C7: for every verdict marked incorrect validate_hs_codes emits exactly
\* one anomaly per shipment whose (hs_code, product_description) equals the
\* pair of the verdict; when no shipment has the pair, exactly one anomaly
\* with the identifier given in the verdict; and no anomaly for a shipment
\* whose pair was not marked incorrect.
\* ------------------------------------------------------------------------
\* the verdict objects of a response that validate_hs_codes processed to its end
ParsedVerdicts ==
    LET val == extract_json_from_response(response).val
    IN  IF val.t = "array" THEN [i \in 1..Len(val.items) |-> val.items[i].v] ELSE <<>>

LlmProcessed == pc = "llm_done" /\ response.head # "[LLM"

SamePair(row, v) ==
    row.hs_code.s = v.hs_code.s /\ row.product_description.s = v.product.s

SameCode(row, v) == row.hs_code.s = v.hs_code.s

RowIds(rows) == [i \in 1..Len(rows) |-> rows[i].shipment_id]

\* the shipment ids of the anomalies numbered n, in order
IdsNumbered(n) ==
    RowIds(SelectSeq(llm_anomalies, LAMBDA a : a.anomaly_id = <<"LLM-", n>>))

\* the verdicts marked incorrect (is_correct false or null), in order
MarkedIncorrect(v) == v.is_correct \in {"false", "null"}

IncorrectVerdicts == SelectSeq(ParsedVerdicts, MarkedIncorrect)

\* the identifier given in the verdict
GivenId(v) == IF v.shipment_id = <<>> THEN <<"UNKNOWN", 0>> ELSE v.shipment_id

Min(a, b) == IF a < b THEN a ELSE b

Max(a, b) == IF a > b THEN a ELSE b

\* scores.get(layer, 0.5)
BaseScore(layer) ==
    CASE layer = "rule_based" -> 95
      [] layer = "statistical" -> 55
      [] layer = "llm" -> 80
      [] layer = "trend" -> 85
      [] OTHER -> 50

\* the adjusted base without the clamp
ConfidenceUnclamped(a) ==
    BaseScore(a.layer)
      + (IF a.severity = "critical" THEN 10 ELSE IF a.severity = "medium" THEN 0 - 10 ELSE 0)
      + (IF a.evidence_count >= 5 THEN 5 ELSE 0)

calculate_confidence_score(a) ==
    LET base == BaseScore(a.layer)
        bySeverity == IF a.severity = "critical" THEN base + 10
                      ELSE IF a.severity = "medium" THEN base - 10
                      ELSE base
        byEvidence == IF a.evidence_count >= 5 THEN bySeverity + 5 ELSE bySeverity
    IN  Min(100, Max(0, byEvidence))

\* ------------------------------------------------------------------------
\* report_generator.generate_anomaly_report
\* ------------------------------------------------------------------------
\* severity_order.get(severity, 1)
SeverityWeight(sev) ==
    CASE sev = "critical" -> 4
      [] sev = "high" -> 3
      [] sev = "medium" -> 2
      [] sev = "low" -> 1
      [] OTHER -> 1

\* the penalty term without its cap
RiskScoreUncapped(a) ==
    SeverityWeight(a.severity) * 25000 + a.estimated_penalty_usd

\* severity_order * 25 + min(penalty / 1000, 25), in thousandths
RiskScore(a) ==
    SeverityWeight(a.severity) * 25000 + Min(a.estimated_penalty_usd, 25000)

\* the two fields, and the penalty reset
ScoredPenaltyReset(a) ==
    [confidence_score |-> calculate_confidence_score(a), risk_score |-> RiskScore(a)]
        @@ [a EXCEPT !.estimated_penalty_usd = 0]

\* the two fields the aggregator adds to the dict
Scored(a) ==
    [confidence_score |-> calculate_confidence_score(a), risk_score |-> RiskScore(a)] @@ a

\* list.sort(key=risk_score, reverse=True): stable, descending
RECURSIVE InsertDesc(_, _)
InsertDesc(sorted, a) ==
    IF sorted = <<>> THEN <<a>>
    ELSE IF sorted[1].risk_score >= a.risk_score
         THEN <<sorted[1]>> \o InsertDesc(Tail(sorted), a)
         ELSE <<a>> \o sorted

RECURSIVE SortDescFrom(_, _, _)
SortDescFrom(list, i, sorted) ==
    IF i > Len(list) THEN sorted
    ELSE SortDescFrom(list, i + 1, InsertDesc(sorted, list[i]))

\* the list left in its input order
SortSkipped(list) == list

SortByRisk(list) == SortDescFrom(list, 1, <<>>)

RECURSIVE SumPenalty(_, _)
SumPenalty(list, i) ==
    IF i > Len(list) THEN 0
    ELSE list[i].estimated_penalty_usd + SumPenalty(list, i + 1)

\* the list as the function leaves it: scored, then sorted in place
ScoredAndSorted(all_anomalies) ==
    SortByRisk([i \in 1..Len(all_anomalies) |-> Scored(all_anomalies[i])])

generate_anomaly_report(all_anomalies) ==
    LET list == ScoredAndSorted(all_anomalies)
    IN  [written |-> TRUE,
         total_anomalies |-> Len(list),
         anomalies_by_confidence |->
             [high |-> Len(SelectSeq(list, LAMBDA a : a.confidence_score >= 75)),
              medium |-> Len(SelectSeq(list, LAMBDA a : a.confidence_score < 75
                                                         /\ a.confidence_score >= 55)),
              low |-> Len(SelectSeq(list, LAMBDA a : a.confidence_score < 55))],
         anomalies_by_severity |->
             [sev \in {a.severity : a \in Range(list)} |->
                 Len(SelectSeq(list, LAMBDA a : a.severity = sev))],
         anomalies_by_category |->
             [cat \in {a.category : a \in Range(list)} |->
                 Len(SelectSeq(list, LAMBDA a : a.category = cat))],
         total_estimated_penalty_usd |-> SumPenalty(list, 1),
         anomalies |-> list]

\* ------------------------------------------------------------------------
\* report_generator.generate_accuracy_report
\* ------------------------------------------------------------------------
\* shipment_id.startswith(('MULTI-', 'CTRY-'))
IsAggregateKey(sid) == sid[1] \in {"MULTI-", "CTRY-"}

planted_shipment_ids(planted) == {planted[i].shipment_id : i \in 1..Len(planted)}

\* the detected set without the prefix filter
DetectedIdsKeepAggregates(all_anomalies) ==
    {a.shipment_id : a \in Range(all_anomalies)}

detected_shipment_ids(all_anomalies) ==
    {a.shipment_id : a \in {b \in Range(all_anomalies) : ~IsAggregateKey(b.shipment_id)}}

correctly_detected(all_anomalies, planted) ==
    planted_shipment_ids(planted) \cap detected_shipment_ids(all_anomalies)

missed_planted(all_anomalies, planted) ==
    planted_shipment_ids(planted) \ detected_shipment_ids(all_anomalies)

\* false positives counted once per shipment
FalsePositivesOncePerShipment(all_anomalies, planted) ==
    LET first == SelectSeq([i \in 1..Len(all_anomalies) |-> [a |-> all_anomalies[i], i |-> i]],
                           LAMBDA e : /\ e.a.shipment_id \notin planted_shipment_ids(planted)
                                      /\ ~IsAggregateKey(e.a.shipment_id)
                                      /\ \A k \in 1..(e.i - 1) :
                                             all_anomalies[k].shipment_id # e.a.shipment_id)
    IN  [j \in 1..Len(first) |-> first[j].a]

false_positives(all_anomalies, planted) ==
    SelectSeq(all_anomalies,
              LAMBDA a : /\ a.shipment_id \notin planted_shipment_ids(planted)
                         /\ ~IsAggregateKey(a.shipment_id))

Ratio(n, d) == [num |-> n, den |-> d]

\* n_detected / (n_detected + n_fp) if (n_detected + n_fp) > 0 else 0
Precision(n_detected, n_fp) ==
    IF n_detected + n_fp > 0 THEN Ratio(n_detected, n_detected + n_fp) ELSE Ratio(0, 1)

\* the guard written as n_planted > 1
RecallGuardOffByOne(n_detected, n_planted) ==
    IF n_planted > 1 THEN Ratio(n_detected, n_planted) ELSE Ratio(0, 1)

\* n_detected / n_planted if n_planted > 0 else 0
Recall(n_detected, n_planted) ==
    IF n_planted > 0 THEN Ratio(n_detected, n_planted) ELSE Ratio(0, 1)

\* the arithmetic mean in place of the harmonic mean
F1ArithmeticMean(precision, recall) ==
    LET sum == precision.num * recall.den + recall.num * precision.den
    IN  IF sum > 0 THEN Ratio(sum, 2 * precision.den * recall.den) ELSE Ratio(0, 1)

\* 2 * precision * recall / (precision + recall) if (precision + recall) > 0 else 0
F1(precision, recall) ==
    LET sum == precision.num * recall.den + recall.num * precision.den
    IN  IF sum > 0 THEN Ratio(2 * precision.num * recall.num, sum) ELSE Ratio(0, 1)

\* round(x, 3), in thousandths (ties to even)
Round3(x) ==
    LET scaled == x.num * 1000
        q == scaled \div x.den
        r == scaled % x.den
    IN  IF 2 * r > x.den \/ (2 * r = x.den /\ q % 2 = 1) THEN q + 1 ELSE q

\* computed: the values of lines 154-157; the other fields are the report dict
generate_accuracy_report(all_anomalies, planted) ==
    LET n_planted == Len(planted)
        n_detected == Cardinality(correctly_detected(all_anomalies, planted))
        n_missed == Cardinality(missed_planted(all_anomalies, planted))
        fps == false_positives(all_anomalies, planted)
        n_fp == Len(fps)
        precision == Precision(n_detected, n_fp)
        recall == Recall(n_detected, n_planted)
        f1 == F1(precision, recall)
        missed_details ==
            SelectSeq(planted,
                      LAMBDA q : q.shipment_id \in missed_planted(all_anomalies, planted))
    IN  [written |-> TRUE,
         computed |-> [precision |-> precision, recall |-> recall, f1 |-> f1],
         planted_anomalies |-> n_planted,
         detected_correctly |-> n_detected,
         missed |-> n_missed,
         false_positives |-> n_fp,
         precision |-> Round3(precision),
         recall |-> Round3(recall),
         f1_score |-> Round3(f1),
         missed_anomalies |-> [i \in 1..Len(missed_details) |-> missed_details[i].anomaly_id],
         false_positive_details |->
             [i \in 1..Min(5, Len(fps)) |-> fps[i].shipment_id]]

\* ------------------------------------------------------------------------
\* report_generator.run_full_pipeline, one action per call it makes
\* ------------------------------------------------------------------------
pipeFrame == <<tableVars, extraVars, callVars, rule_anomalies, stat_anomalies, llm_anomalies,
               planted_file>>

\* all_raw = rule + stat + llm; all_dedupe = deduplicate_anomalies(all_raw)
PipelineDeduplicate ==
    /\ pc = "pipe_start"
    /\ all_raw' = rule_anomalies \o stat_anomalies \o llm_anomalies
    /\ all_dedupe' = deduplicate_anomalies(all_raw')
    /\ pc' = "pipe_deduped"
    /\ UNCHANGED <<pipeFrame, anomaly_report, accuracy_report, files, raised>>

\* generate_anomaly_report(all_dedupe): scores and sorts the list in place,
\* writes anomaly_report.json
PipelineAnomalyReport ==
    /\ pc = "pipe_deduped"
    /\ all_dedupe' = ScoredAndSorted(all_dedupe)
    /\ anomaly_report' = generate_anomaly_report(all_dedupe)
    /\ files' = files \cup {"anomaly_report.json"}
    /\ pc' = "pipe_reported"
    /\ UNCHANGED <<pipeFrame, all_raw, accuracy_report, raised>>

\* generate_accuracy_report(all_dedupe) with the manifest on disk
PipelineAccuracyReport ==
    /\ pc = "pipe_reported"
    /\ planted_file.exists
    /\ accuracy_report' = generate_accuracy_report(all_dedupe, planted_file.planted)
    /\ files' = files \cup {"accuracy_report.json"}
    /\ pc' = "pipe_evaluated"
    /\ UNCHANGED <<pipeFrame, all_raw, all_dedupe, anomaly_report, raised>>

\* open(planted_path) raises when the manifest is absent; nothing in
\* run_full_pipeline catches it, so the call ends here
PipelineAccuracyRaises ==
    /\ pc = "pipe_reported"
    /\ ~planted_file.exists
    /\ raised' = "FileNotFoundError"
    /\ pc' = "pipe_raised"
    /\ UNCHANGED <<pipeFrame, all_raw, all_dedupe, anomaly_report, accuracy_report, files>>

\* save_executive_summary(summary_text); return the three results
PipelineSaveSummaryAndReturn ==
    /\ pc = "pipe_evaluated"
    /\ files' = files \cup {"executive_summary.md"}
    /\ pc' = "pipe_returned"
    /\ UNCHANGED <<pipeFrame, all_raw, all_dedupe, anomaly_report, accuracy_report, raised>>

MaxPerLayer == 2

Sid(prefix, n) == <<prefix, n>>

\* anomalies as rule_engine.run_rule_checks emits them
RulePool ==
    {MkAnomaly(<<"RULE-", 1>>, "rule_based", Sid("SHP-", 1), "pricing",
               "fob_math_error", "critical", 5000, 5),
     MkAnomaly(<<"RULE-", 2>>, "rule_based", Sid("SHP-", 2), "cross_field",
               "cif_zero_freight", "high", 2500, 3)}

\* anomalies as statistical_detector.run_statistical_checks emits them
StatPool ==
    {MkAnomaly(<<"STAT-", 1>>, "statistical", Sid("SHP-", 1), "pricing",
               "price_outlier", "high", 2000, 6),
     MkAnomaly(<<"STAT-", 2>>, "statistical", Sid("MULTI-", 1), "volume",
               "buyer_volume_spike", "high", 10000, 5),
     MkAnomaly(<<"STAT-", 3>>, "statistical", Sid("MULTI-", 1), "volume",
               "buyer_volume_spike", "critical", 10000, 5)}

\* anomalies as llm_detector.validate_hs_codes emits them
LlmPool ==
    {MkAnomaly(<<"LLM-", 1>>, "llm", Sid("SHP-", 1), "compliance",
               "hs_code_mismatch", "critical", 6000, 5),
     MkAnomaly(<<"LLM-", 2>>, "llm", Sid("SHP-", 3), "compliance",
               "hs_code_mismatch", "critical", 6000, 5)}

PlantedEntry(n, sid) == [anomaly_id |-> <<"PLANTED-", n>>, shipment_id |-> sid]

PipelineManifests ==
    {NoManifestFile,
     ManifestFile(<<>>),
     ManifestFile(<<PlantedEntry(1, Sid("SHP-", 1))>>),
     ManifestFile(<<PlantedEntry(1, Sid("SHP-", 1)), PlantedEntry(2, Sid("SHP-", 5))>>)}

InitPipeline ==
    /\ pc = "pipe_start"
    /\ rule_anomalies \in SeqsUpTo(RulePool, MaxPerLayer)
    /\ stat_anomalies \in SeqsUpTo(StatPool, MaxPerLayer)
    /\ llm_anomalies \in SeqsUpTo(LlmPool, MaxPerLayer)
    /\ planted_file \in PipelineManifests
    /\ all_raw = <<>> /\ all_dedupe = <<>>
    /\ shipments_df = <<>> /\ buyers_df = <<>>
    /\ api_key = FALSE /\ attempt = 0 /\ sleeps = <<>> /\ response = NoResponse
    /\ usage_log = NewLedger /\ task_name = "" /\ call_no = 0
    /\ anomaly_report = NoReport /\ accuracy_report = NoReport /\ files = {}
    /\ raised = "none"
    /\ ExtraIdle

NextPipeline ==
    \/ PipelineDeduplicate
    \/ PipelineAnomalyReport
    \/ PipelineAccuracyReport
    \/ PipelineAccuracyRaises
    \/ PipelineSaveSummaryAndReturn

SpecPipeline == InitPipeline /\ [][NextPipeline]_vars

LlmLayerEmpty == llm_anomalies = <<>>

AnomalyReportWritten == pc \in {"pipe_reported", "pipe_evaluated", "pipe_returned", "pipe_raised"}

RuleAndStat == rule_anomalies \o stat_anomalies

\* the first anomaly of the two deterministic layers carrying the key of a
FirstWithKeyOf(a) ==
    LET i == CHOOSE j \in 1..Len(RuleAndStat) :
                 /\ RuleAndStat[j].shipment_id = a.shipment_id
                 /\ RuleAndStat[j].sub_type = a.sub_type
                 /\ \A k \in 1..(j - 1) :
                        ~(/\ RuleAndStat[k].shipment_id = a.shipment_id
                          /\ RuleAndStat[k].sub_type = a.sub_type)
    IN  RuleAndStat[i]

KeepsOriginalFields(reported, original) ==
    \A f \in DOMAIN original : reported[f] = original[f]

\* C5: when the third layer contributes no anomaly, run_full_pipeline raises
\* nothing as long as the manifest is on disk, it returns with all three
\* outputs written, and the anomaly report holds, for every
\* (shipment_id, sub_type) key reported by the rule and statistical layers,
\* exactly one anomaly with that key: that layer's anomaly, every original
\* field unchanged.
C5_EmptyLlmKeepsRuleAndStat ==
    LlmLayerEmpty =>
        /\ planted_file.exists => raised = "none"
        /\ pc = "pipe_returned" =>
               /\ anomaly_report.written /\ accuracy_report.written
               /\ files = {"anomaly_report.json", "accuracy_report.json",
                           "executive_summary.md"}
        /\ AnomalyReportWritten =>
               /\ anomaly_report.total_anomalies = Len(anomaly_report.anomalies)
               /\ \A a \in Range(RuleAndStat) :
                      LET same == SelectSeq(anomaly_report.anomalies,
                                            LAMBDA r : /\ r.shipment_id = a.shipment_id
                                                       /\ r.sub_type = a.sub_type)
                      IN  /\ Len(same) = 1
                          /\ same[1].layer = a.layer
                          /\ KeepsOriginalFields(same[1], FirstWithKeyOf(a))
               /\ \A r \in Range(anomaly_report.anomalies) :
                      \E a \in Range(RuleAndStat) :
                          /\ r.shipment_id = a.shipment_id
                          /\ r.sub_type = a.sub_type

\* both deterministic layers reported on the same shipment, the third layer
\* reported nothing, and the pipeline has returned
C5_Witness ==
    /\ pc = "pipe_returned"
    /\ LlmLayerEmpty
    /\ \E a \in Range(rule_anomalies) : \E b \in Range(stat_anomalies) :
           a.shipment_id = b.shipment_id
    /\ Len(anomaly_report.anomalies) >= 2

PipelineEnded == pc \in {"pipe_returned", "pipe_raised"}

\* C6: with the manifest file missing, the run of run_full_pipeline still
\* produces its other outputs: the anomaly report and the narrative summary
\* file are both written by the time the call ends.
C6_MissingManifestKeepsOtherOutputs ==
    (PipelineEnded /\ ~planted_file.exists) =>
        {"anomaly_report.json", "executive_summary.md"} \subseteq files

\* ------------------------------------------------------------------------
\* generate_accuracy_report on its own: a first evaluation, then
\* re-evaluations of the list with one more detected anomaly
\* ------------------------------------------------------------------------
MaxPlanted == 2
MaxDetected == 3

PlantedPool ==
    {PlantedEntry(1, Sid("SHP-", 1)), PlantedEntry(2, Sid("SHP-", 2)),
     PlantedEntry(3, Sid("MULTI-", 1)), PlantedEntry(4, Sid("SHP-", 1))}

DetectedPool ==
    {MkAnomaly(<<"RULE-", 1>>, "rule_based", Sid("SHP-", 1), "pricing",
               "fob_math_error", "critical", 5000, 5),
     MkAnomaly(<<"RULE-", 2>>, "rule_based", Sid("SHP-", 2), "cross_field",
               "cif_zero_freight", "high", 2500, 3),
     MkAnomaly(<<"STAT-", 1>>, "statistical", Sid("SHP-", 3), "pricing",
               "price_outlier", "high", 2000, 6),
     MkAnomaly(<<"LLM-", 1>>, "llm", Sid("SHP-", 3), "compliance",
               "hs_code_mismatch", "critical", 6000, 5),
     MkAnomaly(<<"STAT-", 2>>, "statistical", Sid("MULTI-", 1), "volume",
               "buyer_volume_spike", "high", 10000, 5),
     MkAnomaly(<<"STAT-", 3>>, "statistical", Sid("CTRY-", 1), "volume",
               "country_volume_spike", "high", 5000, 5)}

accFrame == <<tableVars, extraVars, callVars, rule_anomalies, stat_anomalies, llm_anomalies,
              planted_file, all_raw, anomaly_report, raised>>

InitAccuracy ==
    /\ pc = "acc_call"
    /\ planted_file \in {ManifestFile(planted) : planted \in SeqsUpTo(PlantedPool, MaxPlanted)}
    /\ all_dedupe = <<>>
    /\ all_raw = <<>> /\ shipments_df = <<>> /\ buyers_df = <<>>
    /\ RuleIdle /\ LlmIdle /\ stat_anomalies = <<>>
    /\ anomaly_report = NoReport /\ accuracy_report = NoReport /\ files = {}
    /\ raised = "none"
    /\ ExtraIdle

\* generate_accuracy_report(all_dedupe)
AccuracyFirstRun ==
    /\ pc = "acc_call"
    /\ accuracy_report' = generate_accuracy_report(all_dedupe, planted_file.planted)
    /\ files' = files \cup {"accuracy_report.json"}
    /\ pc' = "acc_done"
    /\ UNCHANGED <<accFrame, all_dedupe>>

\* generate_accuracy_report(all_dedupe + [a])
AccuracyRerunWithOneMore(a) ==
    /\ pc = "acc_done"
    /\ Len(all_dedupe) < MaxDetected
    /\ all_dedupe' = Append(all_dedupe, a)
    /\ accuracy_report' = generate_accuracy_report(all_dedupe', planted_file.planted)
    /\ files' = files \cup {"accuracy_report.json"}
    /\ pc' = "acc_done"
    /\ UNCHANGED accFrame

NextAccuracy ==
    \/ AccuracyFirstRun
    \/ \E a \in DetectedPool : AccuracyRerunWithOneMore(a)

SpecAccuracy == InitAccuracy /\ [][NextAccuracy]_vars

Evaluated == pc = "acc_done"

ManifestIds == {planted_file.planted[i].shipment_id : i \in 1..Len(planted_file.planted)}

AllDetectedIds == {all_dedupe[i].shipment_id : i \in 1..Len(all_dedupe)}

EveryPlantedIdDetected == ManifestIds \subseteq AllDetectedIds

IsOne(x) == x.num = x.den

\* C8 as stated: for every manifest and every detected list, recall is 1.0
\* whenever every shipment id of the manifest is the shipment_id of at least
\* one detected anomaly.
C8_RecallOneWhenAllPlantedDetected ==
    (Evaluated /\ EveryPlantedIdDetected) =>
        /\ IsOne(accuracy_report.computed.recall)
        /\ accuracy_report.recall = 1000

ManifestIdsDistinct ==
    \A i, j \in 1..Len(planted_file.planted) :
        planted_file.planted[i].shipment_id = planted_file.planted[j].shipment_id => i = j

NoAggregateKeyPlanted == \A sid \in ManifestIds : sid[1] \notin {"MULTI-", "CTRY-"}

\* C8, amended: for every non-empty manifest whose shipment ids are pairwise
\* distinct and none of which starts with MULTI- or CTRY-, recall is 1.0
\* whenever every shipment id of the manifest is the shipment_id of at least
\* one detected anomaly.
C8_RecallOneForDistinctShipmentManifest ==
    (/\ Evaluated
     /\ planted_file.planted # <<>>
     /\ ManifestIdsDistinct
     /\ NoAggregateKeyPlanted
     /\ EveryPlantedIdDetected) =>
        /\ IsOne(accuracy_report.computed.recall)
        /\ accuracy_report.recall = 1000

\* two planted shipments, both detected, next to a detection that is not planted
C8_Witness ==
    /\ Evaluated
    /\ Len(planted_file.planted) = 2
    /\ ManifestIdsDistinct
    /\ NoAggregateKeyPlanted
    /\ EveryPlantedIdDetected
    /\ Len(all_dedupe) = 3
    /\ accuracy_report.false_positives = 1

RatioLess(x, y) == x.num * y.den < y.num * x.den

RatioEq(x, y) == x.num * y.den = y.num * x.den

Last(list) == list[Len(list)]

\* a step that re-evaluates the list with one more anomaly whose shipment_id
\* is neither planted nor an aggregate key
AddsFalsePositive ==
    /\ Evaluated /\ pc' = "acc_done"
    /\ Len(all_dedupe') = Len(all_dedupe) + 1
    /\ Last(all_dedupe').shipment_id \notin ManifestIds
    /\ Last(all_dedupe').shipment_id[1] \notin {"MULTI-", "CTRY-"}

SomePlantedDetected ==
    \E i \in 1..Len(all_dedupe) :
        /\ all_dedupe[i].shipment_id \in ManifestIds
        /\ all_dedupe[i].shipment_id[1] \notin {"MULTI-", "CTRY-"}

\* C9: adding to the detected list an anomaly whose shipment_id is not planted
\* and does not start with MULTI- or CTRY- never increases the computed
\* precision, strictly lowers it when at least one planted shipment is
\* detected, and leaves recall unchanged.
C9_FalsePositiveLowersPrecision ==
    [][AddsFalsePositive =>
          /\ ~RatioLess(accuracy_report.computed.precision,
                        accuracy_report'.computed.precision)
          /\ SomePlantedDetected =>
                 RatioLess(accuracy_report'.computed.precision,
                           accuracy_report.computed.precision)
          /\ RatioEq(accuracy_report'.computed.recall, accuracy_report.computed.recall)]_vars

\* a planted shipment is detected and the same unplanted shipment has been
\* added twice after it
C9_Witness ==
    /\ Evaluated
    /\ Len(all_dedupe) = 3
    /\ all_dedupe[1].shipment_id \in ManifestIds
    /\ all_dedupe[1].shipment_id[1] = "SHP-"
    /\ all_dedupe[2].shipment_id \notin ManifestIds
    /\ all_dedupe[2].shipment_id[1] = "SHP-"
    /\ all_dedupe[3].shipment_id = all_dedupe[2].shipment_id
    /\ accuracy_report.false_positives = 2
    /\ accuracy_report.detected_correctly = 1

\* |detected /\ planted|: planted ids carried by a detected, non-aggregate anomaly
HitCount ==
    Cardinality({sid \in ManifestIds :
                    \E i \in 1..Len(all_dedupe) :
                        /\ all_dedupe[i].shipment_id = sid
                        /\ sid[1] \notin {"MULTI-", "CTRY-"}})

\* false positives: detected anomalies on an unplanted, non-aggregate shipment
FalseAlarmCount ==
    Cardinality({i \in 1..Len(all_dedupe) :
                    /\ all_dedupe[i].shipment_id \notin ManifestIds
                    /\ all_dedupe[i].shipment_id[1] \notin {"MULTI-", "CTRY-"}})

IsFraction(x, n, d) == x.den > 0 /\ x.num * d = n * x.den

\* C10: precision = hits / (hits + false positives), recall = hits / number of
\* manifest entries, F1 = 2 * precision * recall / (precision + recall); each
\* is 0 when its denominator is 0, and no evaluation raises.
C10_PrecisionRecallF1Formulas ==
    Evaluated =>
        LET P == accuracy_report.computed.precision
            R == accuracy_report.computed.recall
            F == accuracy_report.computed.f1
            sum == P.num * R.den + R.num * P.den
        IN  /\ raised = "none"
            /\ IF HitCount + FalseAlarmCount = 0 THEN P.num = 0 /\ P.den > 0
               ELSE IsFraction(P, HitCount, HitCount + FalseAlarmCount)
            /\ IF Len(planted_file.planted) = 0 THEN R.num = 0 /\ R.den > 0
               ELSE IsFraction(R, HitCount, Len(planted_file.planted))
            /\ IF sum = 0 THEN F.num = 0 /\ F.den > 0
               ELSE IsFraction(F, 2 * P.num * R.num, sum)

\* a hit, a miss and a false positive in one evaluation
C10_Witness ==
    /\ Evaluated
    /\ accuracy_report.detected_correctly = 1
    /\ accuracy_report.missed = 1
    /\ accuracy_report.false_positives = 1

\* the detected list with every MULTI- and CTRY- anomaly taken out
WithoutAggregates ==
    SelectSeq(all_dedupe, LAMBDA a : a.shipment_id[1] \notin {"MULTI-", "CTRY-"})

AccuracyFigures(report) ==
    <<report.detected_correctly, report.missed, report.false_positives,
      report.computed.precision, report.computed.recall, report.computed.f1,
      report.precision, report.recall, report.f1_score>>

\* C11: anomalies whose shipment_id starts with MULTI- or CTRY- count neither
\* as detections nor as false positives: the report on a detected list has the
\* same detected_correctly, missed, false_positives, precision, recall and F1
\* as the report on that list with all such anomalies removed.
C11_AggregateKeysLeaveAccuracyUnchanged ==
    Evaluated =>
        AccuracyFigures(accuracy_report) =
            AccuracyFigures(generate_accuracy_report(WithoutAggregates,
                                                     planted_file.planted))

\* an aggregate id is planted and detected, next to a real detection
C11_Witness ==
    /\ Evaluated
    /\ Sid("MULTI-", 1) \in ManifestIds
    /\ \E i \in 1..Len(all_dedupe) : all_dedupe[i].shipment_id = Sid("MULTI-", 1)
    /\ \E i \in 1..Len(all_dedupe) : all_dedupe[i].shipment_id[1] = "CTRY-"
    /\ accuracy_report.detected_correctly + accuracy_report.false_positives >= 1

\* ------------------------------------------------------------------------
\* generate_anomaly_report on its own, on lists covering every layer,
\* severity, penalty size and evidence size
\* ------------------------------------------------------------------------
MaxReport == 2

Severities == {"critical", "high", "medium", "low"}

\* penalties in USD on both sides of the 25,000 cap of the risk score
ReportPenalties == {0, 2500, 25000, 30000}

EvidenceSizes == {4, 5}

AnyAnomaly ==
    {MkAnomaly(<<"ANY-", 1>>, layer, Sid("SHP-", 9), "pricing", "price_outlier",
               sev, pen, nev) :
        layer \in Layers, sev \in Severities, pen \in ReportPenalties, nev \in EvidenceSizes}

\* three anomalies, two of them with the same risk score
TiePool ==
    {MkAnomaly(<<"RULE-", 1>>, "rule_based", Sid("SHP-", 1), "pricing",
               "fob_math_error", "critical", 5000, 5),
     MkAnomaly(<<"STAT-", 1>>, "statistical", Sid("SHP-", 2), "payment",
               "payment_delay", "high", 3000, 7),
     MkAnomaly(<<"STAT-", 2>>, "statistical", Sid("SHP-", 3), "route_logistics",
               "transit_days_outlier", "high", 3000, 5)}

ReportInputs == {<<a>> \o rest : a \in AnyAnomaly, rest \in SeqsUpTo(TiePool, MaxReport)}

InitReport ==
    /\ pc = "report_call"
    /\ all_dedupe \in ReportInputs
    /\ all_raw = <<>> /\ shipments_df = <<>> /\ buyers_df = <<>>
    /\ RuleIdle /\ LlmIdle /\ AggIdle
    /\ raised = "none"
    /\ ExtraIdle

\* generate_anomaly_report(shipments_df, all_dedupe)
GenerateAnomalyReportCall ==
    /\ pc = "report_call"
    /\ all_dedupe' = ScoredAndSorted(all_dedupe)
    /\ anomaly_report' = generate_anomaly_report(all_dedupe)
    /\ files' = files \cup {"anomaly_report.json"}
    /\ pc' = "report_done"
    /\ UNCHANGED <<all_raw, ruleVars, extraVars, llmVars, stat_anomalies,
                   planted_file, accuracy_report, raised>>

NextReport == GenerateAnomalyReportCall

SpecReport == InitReport /\ [][NextReport]_vars

Reported == pc = "report_done"

\* critical=4, high=3, medium=2, low=1
ClaimedWeight(sev) ==
    CASE sev = "critical" -> 4 [] sev = "high" -> 3 [] sev = "medium" -> 2 [] sev = "low" -> 1

\* C12: every anomaly of the report has risk_score = severity_weight * 25 +
\* min(estimated_penalty_usd / 1000, 25) with weights critical 4, high 3,
\* medium 2, low 1, and so a risk_score of at most 125 (scores in thousandths).
C12_RiskScoreFormulaAndBound ==
    Reported =>
        \A i \in 1..Len(anomaly_report.anomalies) :
            LET r == anomaly_report.anomalies[i]
                capped == IF r.estimated_penalty_usd <= 25000
                          THEN r.estimated_penalty_usd ELSE 25000
            IN  /\ r.risk_score = ClaimedWeight(r.severity) * 25000 + capped
                /\ r.risk_score <= 125000

\* a critical anomaly with a penalty above the cap scores exactly 125
C12_Witness ==
    /\ Reported
    /\ \E i \in 1..Len(anomaly_report.anomalies) :
           /\ anomaly_report.anomalies[i].severity = "critical"
           /\ anomaly_report.anomalies[i].estimated_penalty_usd = 30000
           /\ anomaly_report.anomalies[i].risk_score = 125000

\* the fields an anomaly has before the aggregator scores it
OriginalFields(r) ==
    MkAnomaly(r.anomaly_id, r.layer, r.shipment_id, r.category, r.sub_type,
              r.severity, r.estimated_penalty_usd, r.evidence_count)

Occurrences(list, a) ==
    Cardinality({i \in 1..Len(list) : OriginalFields(list[i]) = a})

\* C13: the call leaves the list ordered by risk_score descending, and the
\* ordered list is a permutation of the list it was given.
C13_ReportSortedDescendingPermutation ==
    [][GenerateAnomalyReportCall =>
          /\ anomaly_report'.anomalies = all_dedupe'
          /\ \A i, j \in 1..Len(all_dedupe') :
                 i < j => all_dedupe'[i].risk_score >= all_dedupe'[j].risk_score
          /\ Len(all_dedupe') = Len(all_dedupe)
          /\ \A a \in Range(all_dedupe) :
                 Occurrences(all_dedupe', a) = Occurrences(all_dedupe, a)]_vars

\* three anomalies reported, the one given first placed last
C13_Witness ==
    /\ Reported
    /\ Len(anomaly_report.anomalies) = 3
    /\ anomaly_report.anomalies[3].anomaly_id = <<"ANY-", 1>>
    /\ anomaly_report.anomalies[1].risk_score > anomaly_report.anomalies[3].risk_score

ClampUnit(x) == IF x > 100 THEN 100 ELSE IF x < 0 THEN 0 ELSE x

\* C14: the confidence score is the layer's base reliability (rule_based
\* highest, statistical lowest, llm and trend strictly in between), plus 0.10
\* for critical, minus 0.10 for medium, plus 0.05 for at least 5 evidence
\* fields, clamped to [0, 1] (scores in hundredths).
C14_ConfidenceScoreAdjustedAndClamped ==
    /\ \A mid \in {"llm", "trend"} :
           /\ BaseScore("statistical") < BaseScore(mid)
           /\ BaseScore(mid) < BaseScore("rule_based")
    /\ Reported =>
           \A i \in 1..Len(anomaly_report.anomalies) :
               LET r == anomaly_report.anomalies[i]
                   bySeverity == IF r.severity = "critical" THEN 10
                                 ELSE IF r.severity = "medium" THEN 0 - 10 ELSE 0
                   byEvidence == IF r.evidence_count >= 5 THEN 5 ELSE 0
               IN  /\ r.confidence_score =
                          ClampUnit(BaseScore(r.layer) + bySeverity + byEvidence)
                   /\ r.confidence_score >= 0
                   /\ r.confidence_score <= 100

\* a critical rule-based anomaly with 5 evidence fields is clamped to 1.0
C14_Witness ==
    /\ Reported
    /\ \E i \in 1..Len(anomaly_report.anomalies) :
           /\ anomaly_report.anomalies[i].anomaly_id = <<"ANY-", 1>>
           /\ anomaly_report.anomalies[i].layer = "rule_based"
           /\ anomaly_report.anomalies[i].severity = "critical"
           /\ anomaly_report.anomalies[i].evidence_count = 5
           /\ anomaly_report.anomalies[i].confidence_score = 100

\* ------------------------------------------------------------------------
\* statistical_detector.detect_payment_trend
\* A days_to_payment cell is <<n>>, or <<>> when it is null; the rows of a
\* table are in date order; a buyer name is its first ten characters and
\* the rest.
\* ------------------------------------------------------------------------
window == 3

BuyerName(first10, rest) == [first10 |-> first10, rest |-> rest]

\* df[df['days_to_payment'].notna()]
PaidRows(df) == SelectSeq(df, LAMBDA r : r.days_to_payment # <<>>)

GroupOfBuyer(df, buyer) == SelectSeq(df, LAMBDA r : r.buyer_name = buyer)

RECURSIVE SumDays(_, _)
SumDays(rows, i) ==
    IF i > Len(rows) THEN 0 ELSE rows[i].days_to_payment[1] + SumDays(rows, i + 1)

\* Series.mean() of a non-empty group
MeanDays(rows) == Ratio(SumDays(rows, 1), Len(rows))

RatioMinus(x, y) == Ratio(x.num * y.den - y.num * x.den, x.den * y.den)

\* x >= n, x > n for a ratio with a positive denominator
RatioAtLeast(x, n) == x.num >= n * x.den

\* float(buyer_info.get('avg_payment_days', group mean))
HistoricalAvg(buyers, buyer, group) ==
    IF buyer \in DOMAIN buyers THEN Ratio(buyers[buyer].avg_payment_days, 1)
    ELSE MeanDays(group)

RecentAvg(group) == MeanDays(SubSeq(group, Len(group) - window + 1, Len(group)))

\* older['days_to_payment'].mean() if len(older) > 0 else historical_avg
OlderAvg(buyers, buyer, group) ==
    IF Len(group) > window THEN MeanDays(SubSeq(group, 1, Len(group) - window))
    ELSE HistoricalAvg(buyers, buyer, group)

Slowdown(buyers, buyer, group) == RatioMinus(RecentAvg(group), OlderAvg(buyers, buyer, group))

\* slowdown_pct > 40, with slowdown_pct = 0 when historical_avg is not positive
SlowdownPctOver40(buyers, buyer, group) ==
    LET h == HistoricalAvg(buyers, buyer, group)
        sd == Slowdown(buyers, buyer, group)
    IN  h.num > 0 /\ sd.num * 100 * h.den > 40 * h.num * sd.den

\* the first two tests only
TrendFlagsTwoTests(buyers, buyer, group) ==
    /\ RatioAtLeast(Slowdown(buyers, buyer, group), 14)
    /\ SlowdownPctOver40(buyers, buyer, group)

\* slowdown >= 14 and slowdown_pct > 40 and recent_avg > historical_avg * 1.5
TrendFlags(buyers, buyer, group) ==
    LET h == HistoricalAvg(buyers, buyer, group)
        r == RecentAvg(group)
    IN  /\ RatioAtLeast(Slowdown(buyers, buyer, group), 14)
        /\ SlowdownPctOver40(buyers, buyer, group)
        /\ 2 * r.num * h.den > 3 * h.num * r.den

CreditRating(buyers, buyer) ==
    IF buyer \in DOMAIN buyers THEN buyers[buyer].credit_rating ELSE "N/A"

TrendAnomaly(buyers, buyer, n) ==
    MkAnomaly(<<"TREND-", n>>, "statistical", <<"MULTI-", buyer.first10>>, "payment",
              "payment_deterioration_trend",
              IF CreditRating(buyers, buyer) = "C" THEN "critical" ELSE "high", 5000, 7)

\* the loop over paid_df.groupby('buyer_name'); order holds the buyer names sorted
RECURSIVE TrendFrom(_, _, _, _, _)
TrendFrom(paid, buyers, order, i, counter) ==
    IF i > Len(order) THEN <<>>
    ELSE LET group == GroupOfBuyer(paid, order[i])
         IN  IF Len(group) >= window /\ TrendFlags(buyers, order[i], group)
             THEN <<TrendAnomaly(buyers, order[i], counter + 1)>>
                      \o TrendFrom(paid, buyers, order, i + 1, counter + 1)
             ELSE TrendFrom(paid, buyers, order, i + 1, counter)

EuroTrade == BuyerName("Euro Trade", " GmbH")

GlobalMart == BuyerName("Global Mar", "t Inc")

\* groupby yields the groups in the order of the sorted keys
BuyerOrder == <<EuroTrade, GlobalMart>>

detect_payment_trend(df, buyers) == TrendFrom(PaidRows(df), buyers, BuyerOrder, 1, 0)

MaxPaid == 4

TrendRow(n, buyer, days) ==
    [shipment_id |-> <<"SHP-", n>>, buyer_name |-> buyer, days_to_payment |-> days]

DayCells == {<<>>, <<10>>, <<30>>, <<42>>, <<50>>, <<65>>}

\* the history of Global Mart, oldest first
GlobalMartTables ==
    {[i \in 1..Len(cells) |-> TrendRow(i, GlobalMart, cells[i])] :
        cells \in SeqsUpTo(DayCells, MaxPaid)}

\* Euro Trade has no shipment, or three late ones
EuroTradeTables ==
    {<<>>,
     <<TrendRow(11, EuroTrade, <<65>>), TrendRow(12, EuroTrade, <<65>>),
       TrendRow(13, EuroTrade, <<65>>)>>}

BuyerInfo(avg, rating) == [avg_payment_days |-> avg, credit_rating |-> rating]

\* Global Mart is missing from the buyer table, or listed with a baseline
TrendBuyerTables ==
    {(EuroTrade :> BuyerInfo(25, "A")),
     (EuroTrade :> BuyerInfo(25, "A")) @@ (GlobalMart :> BuyerInfo(0, "B")),
     (EuroTrade :> BuyerInfo(25, "A")) @@ (GlobalMart :> BuyerInfo(25, "A")),
     (EuroTrade :> BuyerInfo(25, "A")) @@ (GlobalMart :> BuyerInfo(40, "C"))}

InitTrend ==
    /\ pc = "trend_call"
    /\ shipments_df \in {g \o e : g \in GlobalMartTables, e \in EuroTradeTables}
    /\ buyers_df \in TrendBuyerTables
    /\ DedupIdle /\ RuleIdle /\ LlmIdle /\ AggIdle
    /\ raised = "none"
    /\ ExtraIdle

\* trend_anomalies = detect_payment_trend(df, buyers_df, window=3)
DetectPaymentTrend ==
    /\ pc = "trend_call"
    /\ stat_anomalies' = detect_payment_trend(shipments_df, buyers_df)
    /\ pc' = "trend_done"
    /\ UNCHANGED <<tableVars, extraVars, dedupVars, rule_anomalies, llmVars, raised,
                   planted_file, anomaly_report, accuracy_report, files>>

NextTrend == DetectPaymentTrend

SpecTrend == InitTrend /\ [][NextTrend]_vars

TrendDone == pc = "trend_done"

\* C15: every anomaly of detect_payment_trend carries the layer trend, and so
\* gets the trend priority in deduplication and the trend base in its
\* confidence score.
C15_TrendAnomaliesCarryTrendLayer ==
    TrendDone =>
        \A a \in Range(stat_anomalies) :
            /\ a.layer = "trend"
            /\ Priority(a.layer) = Priority("trend")
            /\ BaseScore(a.layer) = BaseScore("trend")

\* the paid shipments of a buyer, oldest first
PaidOf(buyer) ==
    SelectSeq(shipments_df, LAMBDA r : r.buyer_name = buyer /\ r.days_to_payment # <<>>)

RECURSIVE DaySum(_, _, _)
DaySum(rows, from, to) ==
    IF from > to THEN 0 ELSE rows[from].days_to_payment[1] + DaySum(rows, from + 1, to)

\* the buyer's historical baseline: the buyer table's average, or the mean of
\* the buyer's own paid shipments when the table does not list the buyer
Baseline(buyer) ==
    IF buyer \in DOMAIN buyers_df THEN [num |-> buyers_df[buyer].avg_payment_days, den |-> 1]
    ELSE [num |-> DaySum(PaidOf(buyer), 1, Len(PaidOf(buyer))), den |-> Len(PaidOf(buyer))]

RecentMean(buyer) ==
    LET g == PaidOf(buyer) IN [num |-> DaySum(g, Len(g) - 2, Len(g)), den |-> 3]

\* the mean of the shipments before the recent three; the baseline when
\* there is none
PriorMean(buyer) ==
    LET g == PaidOf(buyer)
    IN  IF Len(g) > 3 THEN [num |-> DaySum(g, 1, Len(g) - 3), den |-> Len(g) - 3]
        ELSE Baseline(buyer)

Gap(buyer) ==
    LET r == RecentMean(buyer)
        o == PriorMean(buyer)
    IN  [num |-> r.num * o.den - o.num * r.den, den |-> r.den * o.den]

\* gap >= 14 days, gap > 40% of the baseline, recent mean > 1.5 x baseline
ThreeTrendConditions(buyer) ==
    LET gap == Gap(buyer)
        base == Baseline(buyer)
        r == RecentMean(buyer)
    IN  /\ gap.num >= 14 * gap.den
        /\ 10 * gap.num * base.den > 4 * base.num * gap.den
        /\ 2 * r.num * base.den > 3 * base.num * r.den

TrendAnomaliesOf(buyer) ==
    SelectSeq(stat_anomalies,
              LAMBDA a : /\ a.shipment_id = <<"MULTI-", buyer.first10>>
                         /\ a.sub_type = "payment_deterioration_trend")

\* C18 as stated: a buyer with at least 3 paid shipments gets exactly one
\* payment_deterioration_trend anomaly keyed to MULTI-<buyer> if and only if
\* the three conditions hold, and none otherwise; a buyer with fewer gets none.
C18_TrendIffThreeConditions ==
    TrendDone =>
        /\ \A a \in Range(stat_anomalies) : a.shipment_id[1] = "MULTI-"
        /\ \A i \in 1..Len(BuyerOrder) :
               LET buyer == BuyerOrder[i]
               IN  Len(TrendAnomaliesOf(buyer)) =
                       (IF Len(PaidOf(buyer)) >= 3 /\ ThreeTrendConditions(buyer)
                        THEN 1 ELSE 0)

\* C18, amended: the same, with the anomaly emitted only when the buyer's
\* baseline is positive as well; a buyer whose baseline is zero or negative
\* gets no anomaly.
C18_TrendIffPositiveBaselineAndThreeConditions ==
    TrendDone =>
        /\ \A a \in Range(stat_anomalies) :
               /\ a.shipment_id[1] = "MULTI-"
               /\ a.sub_type = "payment_deterioration_trend"
        /\ Len(stat_anomalies) =
               Cardinality({i \in 1..Len(BuyerOrder) :
                               Len(TrendAnomaliesOf(BuyerOrder[i])) = 1})
        /\ \A i \in 1..Len(BuyerOrder) :
               LET buyer == BuyerOrder[i]
               IN  Len(TrendAnomaliesOf(buyer)) =
                       (IF /\ Len(PaidOf(buyer)) >= 3
                           /\ Baseline(buyer).num > 0
                           /\ ThreeTrendConditions(buyer)
                        THEN 1 ELSE 0)

\* both buyers are flagged, Global Mart on three paid shipments and a null one
C18_Witness ==
    /\ TrendDone
    /\ Len(stat_anomalies) = 2
    /\ Len(PaidOf(GlobalMart)) = 3
    /\ Len(GroupOfBuyer(shipments_df, GlobalMart)) = 4
    /\ GlobalMart \in DOMAIN buyers_df

\* ------------------------------------------------------------------------
\* rule_engine.run_rule_checks, check 5: the insurance band
\* ------------------------------------------------------------------------
InsuranceAnomalies ==
    SelectSeq(rule_anomalies, LAMBDA a : a.sub_type = "insurance_rate_error")

\* insurance / declared value above 0.8%, below 0.05%
RatioAboveBand(row) == 1000 * row.insurance_usd > 8 * row.total_fob_usd

RatioBelowBand(row) == 10000 * row.insurance_usd < 5 * row.total_fob_usd

SeverityOfBand(row) == IF RatioAboveBand(row) THEN "medium" ELSE "low"

\* the anomalies are those of the rows picked out, one each, in row order
FlagsExactly(rows) ==
    /\ Len(InsuranceAnomalies) = Len(rows)
    /\ \A k \in 1..Len(rows) :
           /\ InsuranceAnomalies[k].shipment_id = rows[k].shipment_id
           /\ InsuranceAnomalies[k].severity = SeverityOfBand(rows[k])

z_threshold == Ratio(5, 2)

RECURSIVE SumSeq(_, _)
SumSeq(xs, i) == IF i > Len(xs) THEN 0 ELSE xs[i] + SumSeq(xs, i + 1)

Sign(x) == IF x > 0 THEN 1 ELSE IF x < 0 THEN 0 - 1 ELSE 0

\* (series - series.mean()) / series.std(), zeros when std is 0 or NaN;
\* std is the sample deviation, NaN for a series of one value
zscore(xs) ==
    LET n == Len(xs)
        s == SumSeq(xs, 1)
        dev == [i \in 1..n |-> n * xs[i] - s]
        ss == SumSeq([i \in 1..n |-> dev[i] * dev[i]], 1)
    IN  IF n < 2 \/ ss = 0
        THEN [i \in 1..n |-> [sign |-> 0, num |-> 0, den |-> 1]]
        ELSE [i \in 1..n |-> [sign |-> Sign(dev[i]),
                              num |-> dev[i] * dev[i] * (n - 1), den |-> ss]]

\* abs(z) > t and z > t, for a threshold t >= 0 given as a ratio
ZAbsOver(z, t) == z.num * t.den * t.den > t.num * t.num * z.den

ZOver(z, t) == z.sign > 0 /\ ZAbsOver(z, t)

\* every value above the mean of its group, whatever the size of the group
OutlierIndexesAboveMean(xs) ==
    SelectSeq([i \in 1..Len(xs) |-> i], LAMBDA i : Len(xs) * xs[i] > SumSeq(xs, 1))

\* if len(group) < 3: continue ... group[zscores.abs() > z_threshold]
OutlierIndexes(xs) ==
    IF Len(xs) < 3 THEN <<>>
    ELSE LET z == zscore(xs)
         IN  SelectSeq([i \in 1..Len(xs) |-> i], LAMBDA i : ZAbsOver(z[i], z_threshold))

Column(rows, field) == [i \in 1..Len(rows) |-> rows[i][field]]

RECURSIVE Concat(_, _)
Concat(lists, i) == IF i > Len(lists) THEN <<>> ELSE lists[i] \o Concat(lists, i + 1)

\* make_anomaly, before the counter gives it its number
StatAnomaly(sid, cat, sub, sev, pen, nev) ==
    MkAnomaly(<<"STAT-", 0>>, "statistical", sid, cat, sub, sev, pen, nev)

Rice == "Basmati Rice Premium Grade"

TShirts == "Cotton T-shirts 100% knitted"

Tablets == "Pharmaceutical Tablets Generic"

Granules == "Polypropylene Granules Industrial"

\* groupby yields the groups in the order of the sorted keys
ProductOrder == <<Rice, TShirts, Tablets, Granules>>

RouteOrder == <<<<"INMUN1", "DEHAM">>, <<"INMUN1", "USLAX">>>>

ContainerOrder == <<"20ft", "40ft">>

Country(first5, rest) == [first5 |-> first5, rest |-> rest]

Germany == Country("Germa", "ny")

USA == Country("USA", "")

CountryOrder == <<Germany, USA>>

\* STAT-1: price outliers of one product
PriceOutliers(df, product) ==
    LET group == SelectSeq(df, LAMBDA r : r.product_description = product)
        xs == Column(group, "unit_price_usd")
        z == zscore(xs)
        out == OutlierIndexes(xs)
    IN  [k \in 1..Len(out) |->
            StatAnomaly(group[out[k]].shipment_id, "pricing", "price_outlier",
                        IF ZAbsOver(z[out[k]], Ratio(4, 1)) THEN "critical" ELSE "high",
                        IF z[out[k]].sign > 0 THEN 2000 ELSE 8000, 6)]

RouteGroup(df, route) ==
    SelectSeq(df, LAMBDA r : r.port_of_loading = route[1] /\ r.port_of_discharge = route[2])

\* STAT-2: transit time outliers of one route
TransitOutliers(df, route) ==
    LET group == RouteGroup(df, route)
        xs == Column(group, "transit_days")
        z == zscore(xs)
        out == OutlierIndexes(xs)
    IN  [k \in 1..Len(out) |->
            StatAnomaly(group[out[k]].shipment_id, "route_logistics", "transit_days_outlier",
                        IF ZAbsOver(z[out[k]], Ratio(4, 1)) THEN "high" ELSE "medium",
                        3000, 5)]

\* group[group['freight_cost_usd'] > 0] of one route and container type
ValidFreight(df, route, ctype) ==
    SelectSeq(RouteGroup(df, route),
              LAMBDA r : r.container_type = ctype /\ r.freight_cost_usd > 0)

\* STAT-3: freight cost outliers of one route and container type
FreightOutliers(df, route, ctype) ==
    LET valid == ValidFreight(df, route, ctype)
        xs == Column(valid, "freight_cost_usd")
        z == zscore(xs)
        out == OutlierIndexes(xs)
    IN  [k \in 1..Len(out) |->
            StatAnomaly(valid[out[k]].shipment_id, "route_logistics", "freight_cost_outlier",
                        IF ZOver(z[out[k]], Ratio(3, 1)) THEN "high" ELSE "medium",
                        IF z[out[k]].sign > 0 THEN 5000 ELSE 0, 6)]

\* buyer_info.get('credit_rating', 'B')
DelayRating(buyers, buyer) ==
    IF buyer \in DOMAIN buyers THEN buyers[buyer].credit_rating ELSE "B"

\* one threshold for every rating
RatingThresholdFlat(rating) == Ratio(5, 2)

\* 4.5 if credit_rating == 'A' else 3.5 if credit_rating == 'B' else 2.5
RatingThreshold(rating) ==
    IF rating = "A" THEN Ratio(9, 2) ELSE IF rating = "B" THEN Ratio(7, 2) ELSE Ratio(5, 2)

\* days_above_avg > 30
DaysAboveAvgOver30(days, avg) == days * avg.den - avg.num > 30 * avg.den

\* STAT-4: payment delays of one buyer
DelayOutliers(df, buyers, buyer) ==
    LET group == GroupOfBuyer(PaidRows(df), buyer)
        xs == [i \in 1..Len(group) |-> group[i].days_to_payment[1]]
        z == zscore(xs)
        rating == DelayRating(buyers, buyer)
        out == SelectSeq(OutlierIndexes(xs),
                         LAMBDA i : /\ ZOver(z[i], RatingThreshold(rating))
                                    /\ DaysAboveAvgOver30(xs[i], HistoricalAvg(buyers, buyer, group)))
    IN  [k \in 1..Len(out) |->
            StatAnomaly(group[out[k]].shipment_id, "payment", "payment_delay",
                        IF rating \in {"B", "C"} THEN "high" ELSE "medium",
                        IF rating = "A" THEN 2000 ELSE 3000, 7)]

RECURSIVE SortedSeq(_)
SortedSeq(S) ==
    IF S = {} THEN <<>>
    ELSE LET m == CHOOSE x \in S : \A y \in S : x <= y
         IN  <<m>> \o SortedSeq(S \ {m})

\* groupby([key, 'year_month'])['total_fob_usd'].sum() of one key: the months
\* of the rows, ascending, and the sum of each month
MonthsOf(rows) == SortedSeq({rows[i].year_month : i \in 1..Len(rows)})

MonthlyFob(rows) ==
    LET months == MonthsOf(rows)
    IN  [k \in 1..Len(months) |->
            SumSeq(Column(SelectSeq(rows, LAMBDA r : r.year_month = months[k]),
                          "total_fob_usd"), 1)]

\* STAT-5: monthly volume spikes of one buyer
BuyerVolumeSpikes(df, buyer) ==
    LET xs == MonthlyFob(GroupOfBuyer(df, buyer))
        z == zscore(xs)
        out == SelectSeq(OutlierIndexes(xs), LAMBDA i : z[i].sign > 0)
    IN  [k \in 1..Len(out) |->
            StatAnomaly(<<"MULTI-", buyer.first10>>, "volume", "buyer_volume_spike",
                        IF ZOver(z[out[k]], Ratio(4, 1)) THEN "critical" ELSE "high",
                        10000, 5)]

CountryGroup(df, country) == SelectSeq(df, LAMBDA r : r.buyer_country = country)

\* STAT-6: monthly volume spikes of one country
CountryVolumeSpikes(df, country) ==
    LET rows == CountryGroup(df, country)
        months == MonthsOf(rows)
        xs == MonthlyFob(rows)
        z == zscore(xs)
        out == SelectSeq(OutlierIndexes(xs), LAMBDA i : z[i].sign > 0)
    IN  [k \in 1..Len(out) |->
            StatAnomaly(<<"CTRY-", <<country.first5, months[out[k]]>>>>, "volume",
                        "country_volume_spike", "high", 5000, 5)]

\* counter[0] += 1 ; "STAT-{counter}"
Numbered(list) == [i \in 1..Len(list) |-> [list[i] EXCEPT !.anomaly_id = <<"STAT-", i>>]]

\* the six scans in the order of the code
ZScoreScans(df, buyers) ==
    Numbered(
        Concat([k \in 1..Len(ProductOrder) |-> PriceOutliers(df, ProductOrder[k])], 1)
        \o Concat([k \in 1..Len(RouteOrder) |-> TransitOutliers(df, RouteOrder[k])], 1)
        \o Concat([k \in 1..Len(RouteOrder) |->
                      Concat([c \in 1..Len(ContainerOrder) |->
                                 FreightOutliers(df, RouteOrder[k], ContainerOrder[c])], 1)], 1)
        \o Concat([k \in 1..Len(BuyerOrder) |-> DelayOutliers(df, buyers, BuyerOrder[k])], 1)
        \o Concat([k \in 1..Len(BuyerOrder) |-> BuyerVolumeSpikes(df, BuyerOrder[k])], 1)
        \o Concat([k \in 1..Len(CountryOrder) |-> CountryVolumeSpikes(df, CountryOrder[k])], 1))

\* ------------------------------------------------------------------------
\* statistical_detector.detect_volume_anomalies_smart
\* ------------------------------------------------------------------------
\* suspicious_products.get(product, 1)
RiskFactor(product) ==
    IF product = Rice THEN 3
    ELSE IF product = Tablets THEN 4
    ELSE IF product = Granules THEN 2
    ELSE 1

\* the ratio to the average of the buyer's other shipments
SpikeRatioOverOthers(df, row, k) ==
    LET others == SelectSeq(GroupOfBuyer(df, row.buyer_name),
                            LAMBDA r : r.shipment_id # row.shipment_id)
        total == SumSeq(Column(others, "total_fob_usd"), 1)
    IN  IF total > 0 THEN row.total_fob_usd * Len(others) > k * total ELSE 1 > k

\* spike_ratio > k, with spike_ratio = buyer_fob / buyer_avg if buyer_avg > 0 else 1
SpikeRatioOver(df, row, k) ==
    LET orders == Column(GroupOfBuyer(df, row.buyer_name), "total_fob_usd")
        total == SumSeq(orders, 1)
    IN  IF total > 0 THEN row.total_fob_usd * Len(orders) > k * total ELSE 1 > k

\* the large-order branch without the 100,000 dollar floor
VolumeFlagsNoFloor(df, row) ==
    \/ SpikeRatioOver(df, row, 8)
    \/ RiskFactor(row.product_description) >= 3 /\ SpikeRatioOver(df, row, 5)

\* (spike_ratio > 8 and buyer_fob > 100000) or (risk_factor >= 3 and spike_ratio > 5)
VolumeFlags(df, row) ==
    \/ SpikeRatioOver(df, row, 8) /\ row.total_fob_usd > 100
    \/ RiskFactor(row.product_description) >= 3 /\ SpikeRatioOver(df, row, 5)

detect_volume_anomalies_smart(df) ==
    LET hits == SelectSeq(df, LAMBDA r : VolumeFlags(df, r))
    IN  [i \in 1..Len(hits) |->
            MkAnomaly(<<"VOL-", i>>, "statistical", hits[i].shipment_id, "volume",
                      "suspicious_large_order", "critical", 20000, 9)]

\* the scans, then the trend anomalies, then the volume anomalies
run_statistical_checks(df, buyers) ==
    ZScoreScans(df, buyers) \o detect_payment_trend(df, buyers)
        \o detect_volume_anomalies_smart(df)

\* ------------------------------------------------------------------------
\* The tables of a run of run_statistical_checks: a block of like shipments
\* of Global Mart, oldest first, and one more shipment after them.
\* ------------------------------------------------------------------------
MaxBlock == 22

BlockSizes == {0, 1, 2, 3, 4, 5, 7, 8, 14, MaxBlock}

\* the shipments of the block are all of one month, or one a month, or all
\* of one month and without a freight cost
BlockKinds == {"one_month", "monthly", "no_freight"}

StatRow(n, product, price, pod, ctype, transit, freight, buyer, days, month, fob) ==
    [shipment_id |-> <<"SHP-", n>>, product_description |-> product,
     unit_price_usd |-> price, port_of_loading |-> "INMUN1",
     port_of_discharge |-> pod, container_type |-> ctype, transit_days |-> transit,
     freight_cost_usd |-> freight, buyer_name |-> buyer,
     buyer_country |-> IF buyer = GlobalMart THEN USA ELSE Germany,
     days_to_payment |-> days, year_month |-> month, total_fob_usd |-> fob]

BlockRow(i, kind) ==
    StatRow(i, Rice, 10, "USLAX", "20ft", 20, IF kind = "no_freight" THEN 0 ELSE 50,
            GlobalMart, <<30>>, IF kind = "monthly" THEN i ELSE 1, 1)

Block(n, kind) == [i \in 1..n |-> BlockRow(i, kind)]

StatBuyers == {GlobalMart, EuroTrade}

\* the last shipment differs from the block in its price, in its value, in
\* its route and freight, or in its payment
PriceProbes(n) ==
    {StatRow(n, product, price, "USLAX", "20ft", 20, 50, GlobalMart, <<30>>, 1, 1) :
        product \in Range(ProductOrder), price \in {1, 10, 40}}

VolumeProbes(n) ==
    {StatRow(n, product, 10, "USLAX", "20ft", 20, 50, buyer, <<30>>, month, fob) :
        product \in Range(ProductOrder), buyer \in StatBuyers,
        month \in {1, 40}, fob \in {0, 1, 7, 70, 120}}

LogisticsProbes(n) ==
    {StatRow(n, Rice, 10, pod, ctype, transit, freight, GlobalMart, <<30>>, 1, 1) :
        pod \in {"USLAX", "DEHAM"}, ctype \in Range(ContainerOrder),
        transit \in {20, 60}, freight \in {0, 50, 90}}

PaymentProbes(n) ==
    {StatRow(n, Rice, 10, "USLAX", "20ft", 20, 50, buyer, days, 1, 1) :
        buyer \in StatBuyers, days \in {<<>>, <<30>>, <<58>>, <<75>>, <<90>>}}

Probes(n) == PriceProbes(n) \cup VolumeProbes(n) \cup LogisticsProbes(n) \cup PaymentProbes(n)

StatTables ==
    UNION {{Block(n, kind) \o <<probe>> : probe \in Probes(n + 1)} :
              n \in BlockSizes, kind \in BlockKinds}

\* Global Mart is missing from the buyer table, or listed with a rating
StatBuyerTables ==
    {(EuroTrade :> BuyerInfo(25, "A"))}
    \cup {(EuroTrade :> BuyerInfo(25, "A")) @@ (GlobalMart :> BuyerInfo(30, rating)) :
             rating \in {"A", "B", "C"}}
    \cup {(EuroTrade :> BuyerInfo(25, "A")) @@ (GlobalMart :> BuyerInfo(50, "C"))}

InitStat ==
    /\ pc = "stat_call"
    /\ shipments_df \in StatTables
    /\ buyers_df \in StatBuyerTables
    /\ DedupIdle /\ RuleIdle /\ LlmIdle /\ AggIdle
    /\ raised = "none"
    /\ ExtraIdle

\* stat_anomalies = run_statistical_checks(shipments_df, products_df, routes_df, buyers_df)
RunStatisticalChecks ==
    /\ pc = "stat_call"
    /\ stat_anomalies' = run_statistical_checks(shipments_df, buyers_df)
    /\ pc' = "stat_done"
    /\ UNCHANGED <<tableVars, extraVars, dedupVars, rule_anomalies, llmVars, raised,
                   planted_file, anomaly_report, accuracy_report, files>>

NextStat == RunStatisticalChecks

SpecStat == InitStat /\ [][NextStat]_vars

StatDone == pc = "stat_done"

AnomaliesOf(sub) == SelectSeq(stat_anomalies, LAMBDA a : a.sub_type = sub)

\* the paid shipments of the buyer of a shipment, and the place of the
\* shipment among them
PaidGroupOf(row) == GroupOfBuyer(PaidRows(shipments_df), row.buyer_name)

PlaceIn(group, row) == CHOOSE i \in 1..Len(group) : group[i].shipment_id = row.shipment_id

DelayZ(row) ==
    LET group == PaidGroupOf(row)
    IN  zscore([i \in 1..Len(group) |-> group[i].days_to_payment[1]])[PlaceIn(group, row)]

DelayFlagged(row) ==
    \E a \in Range(AnomaliesOf("payment_delay")) : a.shipment_id = row.shipment_id

RatingOf(row) ==
    IF row.buyer_name \in DOMAIN buyers_df THEN buyers_df[row.buyer_name].credit_rating
    ELSE "none"

MoreThan30AboveAverage(row) ==
    LET avg == HistoricalAvg(buyers_df, row.buyer_name, PaidGroupOf(row))
    IN  (row.days_to_payment[1] - 30) * avg.den > avg.num

\* C17: the payment-delay scan flags a shipment only if its Z-score within
\* the paid shipments of its buyer exceeds the threshold of the buyer's
\* rating (4.5 for A, 2.5 for C) and its days-to-payment is more than 30
\* days above the buyer's historical average; a shipment of a C-rated buyer
\* with Z > 2.5, more than 30 days above the average and at least 3 paid
\* shipments in the group is flagged; a Z-score above the threshold alone
\* does not flag.
C17_DelayNeedsZScoreAndThirtyDays ==
    StatDone =>
        \A row \in Range(PaidRows(shipments_df)) :
            /\ DelayFlagged(row) =>
                  /\ MoreThan30AboveAverage(row)
                  /\ RatingOf(row) = "A" => ZOver(DelayZ(row), Ratio(9, 2))
                  /\ RatingOf(row) = "C" => ZOver(DelayZ(row), Ratio(5, 2))
            /\ (/\ RatingOf(row) = "C"
                /\ ZOver(DelayZ(row), Ratio(5, 2))
                /\ MoreThan30AboveAverage(row)
                /\ Len(PaidGroupOf(row)) >= 3) => DelayFlagged(row)
            /\ ~MoreThan30AboveAverage(row) => ~DelayFlagged(row)

\* a C-rated buyer's late payment is flagged while another of its payments,
\* in time, is not
C17_Witness ==
    /\ StatDone
    /\ \E row \in Range(PaidRows(shipments_df)) :
          RatingOf(row) = "C" /\ DelayFlagged(row) /\ ZOver(DelayZ(row), Ratio(5, 2))
    /\ \E row \in Range(PaidRows(shipments_df)) : ~DelayFlagged(row)

\* the declared values of the shipments of the buyer of a shipment
OrdersOfBuyer(row) ==
    Column(SelectSeq(shipments_df, LAMBDA r : r.buyer_name = row.buyer_name),
           "total_fob_usd")

\* declared value / buyer's average declared value > k, the ratio being 1
\* when the average is not positive
ValueRatioOver(row, k) ==
    LET avg == Ratio(SumSeq(OrdersOfBuyer(row), 1), Len(OrdersOfBuyer(row)))
    IN  IF avg.num > 0 THEN row.total_fob_usd * avg.den > k * avg.num ELSE 1 > k

LookupRisk(product) ==
    CASE product = Rice -> 3
      [] product = Tablets -> 4
      [] product = Granules -> 2
      [] OTHER -> 1

LargeOrderFlagged(row) ==
    \E a \in Range(AnomaliesOf("suspicious_large_order")) : a.shipment_id = row.shipment_id

SameOn(row, fields) ==
    SelectSeq(shipments_df, LAMBDA r : \A f \in fields : r[f] = row[f])

Route == {"port_of_loading", "port_of_discharge"}

MonthCount(rows) == Cardinality({rows[i].year_month : i \in 1..Len(rows)})

NoneFlagged(rows, sub) ==
    \A a \in Range(AnomaliesOf(sub)) : \A r \in Range(rows) : a.shipment_id # r.shipment_id

\* C20: for every group with fewer than 3 members (product group, route
\* group, route and container group after the positive-freight filter,
\* buyer's paid shipments, buyer's months, country's months) the Z-score
\* scans of run_statistical_checks emit no outlier anomaly for a member of
\* the group, whatever the values are.
C20_SmallGroupsEmitNoOutlier ==
    StatDone =>
        \A row \in Range(shipments_df) :
            LET product == SameOn(row, {"product_description"})
                route == SameOn(row, Route)
                freight == SelectSeq(SameOn(row, Route \cup {"container_type"}),
                                     LAMBDA r : r.freight_cost_usd > 0)
                paid == PaidRows(SameOn(row, {"buyer_name"}))
                buyer == SameOn(row, {"buyer_name"})
                country == SameOn(row, {"buyer_country"})
            IN  /\ Len(product) < 3 => NoneFlagged(product, "price_outlier")
                /\ Len(route) < 3 => NoneFlagged(route, "transit_days_outlier")
                /\ Len(freight) < 3 => NoneFlagged(freight, "freight_cost_outlier")
                /\ Len(paid) < 3 => NoneFlagged(paid, "payment_delay")
                /\ MonthCount(buyer) < 3 =>
                      \A a \in Range(AnomaliesOf("buyer_volume_spike")) :
                          a.shipment_id # <<"MULTI-", row.buyer_name.first10>>
                /\ MonthCount(country) < 3 =>
                      \A a \in Range(AnomaliesOf("country_volume_spike")) :
                          a.shipment_id[2][1] # row.buyer_country.first5

\* a product group of two shipments with different prices has been scanned
C20_Witness ==
    /\ StatDone
    /\ \E row \in Range(shipments_df) :
          LET product == SameOn(row, {"product_description"})
          IN  /\ Len(product) = 2
              /\ product[1].unit_price_usd # product[2].unit_price_usd
              /\ NoneFlagged(product, "price_outlier")

\* ------------------------------------------------------------------------
\* statistical_detector.zscore on one group of values
\* series.mean() and series.std() are computed in binary floating point:
\* the mean of n equal values x is sum / n, which for some x and n is x
\* (4.5 three times) and for others is not (0.1 three times gives
\* 0.10000000000000002).  mean_error is the sign of that difference.  It
\* matters only when the values are as close to each other as floats can
\* be: mean_error = 0 is a group whose spread is far above the rounding
\* error, computed exactly; with mean_error # 0 the values of the series
\* count units in the last place, and the mean is the neighbouring float on
\* that side of the exact mean.  std is the sample deviation about that
\* mean, as pandas computes it.  For equal values std is then a tiny
\* positive number instead of 0 and z^2 = (n - 1) / n for each of them;
\* for seven equal values and a neighbour of theirs, the mean can be the
\* value of the seven and the eighth gets z^2 = 7.
\* ------------------------------------------------------------------------
AllEqual(xs) == \A i, j \in 1..Len(xs) : xs[i] = xs[j]

\* series.mean() rounded to a float: the float below the exact mean
\* (err < 0) or above it (err > 0)
RoundedMean(xs, err) ==
    LET s == SumSeq(xs, 1)
        n == Len(xs)
    IN  IF s % n = 0 THEN (s \div n) + err
        ELSE IF err < 0 THEN s \div n ELSE (s \div n) + 1

zscore_float(xs, err) ==
    IF Len(xs) < 2 \/ err = 0 THEN zscore(xs)
    ELSE LET n == Len(xs)
             mean == RoundedMean(xs, err)
             dev == [i \in 1..n |-> xs[i] - mean]
             ss == SumSeq([i \in 1..n |-> dev[i] * dev[i]], 1)
         IN  IF ss = 0
             THEN [i \in 1..n |-> [sign |-> 0, num |-> 0, den |-> 1]]
             ELSE [i \in 1..n |-> [sign |-> Sign(dev[i]),
                                   num |-> dev[i] * dev[i] * (n - 1), den |-> ss]]

MaxSeries == 8

SeriesValues == {0, 1, 7}

InitZscore ==
    /\ pc = "zscore_call"
    /\ series \in SeqsUpTo(SeriesValues, MaxSeries)
    /\ mean_error \in {0 - 1, 0, 1}
    /\ zscores = <<>>
    /\ shipments_df = <<>> /\ buyers_df = <<>>
    /\ DedupIdle /\ RuleIdle /\ LlmIdle /\ AggIdle
    /\ raised = "none"
    /\ summary_prompt = NoPrompt

\* zscores = zscore(group[column])
ZscoreCall ==
    /\ pc = "zscore_call"
    /\ zscores' = zscore_float(series, mean_error)
    /\ pc' = "zscore_done"
    /\ UNCHANGED <<series, mean_error, tableVars, dedupVars, rule_anomalies, llmVars,
                   raised, aggVars, summary_prompt>>

NextZscore == ZscoreCall

SpecZscore == InitZscore /\ [][NextZscore]_vars

ZscoreDone == pc = "zscore_done"

IsZero(z) == z.sign = 0 /\ z.num = 0

\* neither NaN nor infinite: the quotient is defined
IsFinite(z) == z.den > 0

\* C21: zscore returns 0 for every element whenever the standard deviation
\* is zero or undefined (all elements equal, or fewer than 2 elements,
\* the empty sequence included); the result has the length of the input and
\* holds neither NaN nor infinity, so no member of such a group is flagged.
C21_ZscoreZeroWhenNoSpread ==
    ZscoreDone =>
        /\ Len(zscores) = Len(series)
        /\ \A i \in 1..Len(zscores) : IsFinite(zscores[i])
        /\ (Len(series) < 2 \/ AllEqual(series)) =>
              \A i \in 1..Len(zscores) :
                  IsZero(zscores[i]) /\ ~ZAbsOver(zscores[i], z_threshold)

RuleDone == pc = "rule_done"

\* the anomalies of one sub_type that run_rule_checks emitted for a shipment
RuleAnomaliesFor(sid, sub) ==
    SelectSeq(rule_anomalies, LAMBDA a : a.shipment_id = sid /\ a.sub_type = sub)

RejectedWithDrawback(row) == row.customs_status = "rejected" /\ row.drawback_amount_usd > 0

\* C22 as stated: run_rule_checks emits a drawback_on_rejected anomaly for a
\* shipment if and only if its customs status is rejected and its claimed
\* drawback amount is positive, and the estimated penalty of the anomaly is
\* 3 times the claimed drawback amount.
C22_DrawbackPenaltyIsTriple ==
    RuleDone =>
        \A row \in Range(shipments_df) :
            /\ RuleAnomaliesFor(row.shipment_id, "drawback_on_rejected") # <<>>
                  <=> \E r \in Range(shipments_df) :
                          r.shipment_id = row.shipment_id /\ RejectedWithDrawback(r)
            /\ RejectedWithDrawback(row) =>
                  \E a \in Range(RuleAnomaliesFor(row.shipment_id, "drawback_on_rejected")) :
                      a.estimated_penalty_usd * MoneyUnit = 3 * row.drawback_amount_usd

\* C22 amended: the same equivalence; the estimated penalty is 3 times the
\* claimed drawback amount cut down to whole dollars.
C22_DrawbackPenaltyIsTripleInWholeDollars ==
    RuleDone =>
        \A row \in Range(shipments_df) :
            /\ RuleAnomaliesFor(row.shipment_id, "drawback_on_rejected") # <<>>
                  <=> \E r \in Range(shipments_df) :
                          r.shipment_id = row.shipment_id /\ RejectedWithDrawback(r)
            /\ RejectedWithDrawback(row) =>
                  \E a \in Range(RuleAnomaliesFor(row.shipment_id, "drawback_on_rejected")) :
                      /\ a.estimated_penalty_usd * MoneyUnit <= 3 * row.drawback_amount_usd
                      /\ 3 * row.drawback_amount_usd < (a.estimated_penalty_usd + 1) * MoneyUnit

\* a rejected shipment with a drawback of 123.45 USD carries a penalty of 370
C22_Witness ==
    /\ RuleDone
    /\ \E row \in Range(shipments_df) :
          /\ RejectedWithDrawback(row)
          /\ row.drawback_amount_usd = 1234500
          /\ \E a \in Range(RuleAnomaliesFor(row.shipment_id, "drawback_on_rejected")) :
                a.estimated_penalty_usd = 370

SellerPaidFreightMissing(row) == row.incoterm = "CIF" /\ row.freight_cost_usd = 0

RowsLike(sid) == SelectSeq(shipments_df, LAMBDA r : r.shipment_id = sid)

\* C23: for every shipment whose incoterm is CIF and whose freight cost is
\* zero run_rule_checks emits exactly one cif_zero_freight anomaly, of
\* severity high, whatever other rule anomalies the shipment has; no
\* shipment with a positive freight cost receives one.
C23_CifZeroFreightExactlyOnce ==
    RuleDone =>
        \A row \in Range(shipments_df) :
            LET found == RuleAnomaliesFor(row.shipment_id, "cif_zero_freight")
            IN  /\ Len(found) =
                      Len(SelectSeq(RowsLike(row.shipment_id), SellerPaidFreightMissing))
                /\ \A a \in Range(found) : a.severity = "high"
                /\ (Len(RowsLike(row.shipment_id)) = 1 /\ SellerPaidFreightMissing(row)) =>
                      Len(found) = 1
                /\ (\A r \in Range(RowsLike(row.shipment_id)) : r.freight_cost_usd > 0) =>
                      found = <<>>

\* a CIF shipment without freight that is also a rejected shipment with a
\* drawback gets both anomalies
C23_Witness ==
    /\ RuleDone
    /\ \E row \in Range(shipments_df) :
          /\ SellerPaidFreightMissing(row) /\ RejectedWithDrawback(row)
          /\ Len(RuleAnomaliesFor(row.shipment_id, "cif_zero_freight")) = 1
          /\ Len(RuleAnomaliesFor(row.shipment_id, "drawback_on_rejected")) = 1

AggregatorFields == {"risk_score", "confidence_score"}

\* the anomaly is one that a layer emitted, but for the aggregator's fields
EmittedButForScores(a) ==
    \E r \in Range(all_raw) :
        /\ DOMAIN a \ AggregatorFields = DOMAIN r
        /\ \A f \in DOMAIN r : a[f] = r[f]

\* C24: the aggregator changes an emitted anomaly only by adding risk_score
\* and confidence_score: every anomaly of the final report equals, on all
\* the fields its layer set, an anomaly the layer emitted, and
\* deduplication returns input anomalies unmodified.
C24_AggregatorOnlyAddsScores ==
    /\ pc = "pipe_deduped" => \A a \in Range(all_dedupe) : a \in Range(all_raw)
    /\ anomaly_report.written =>
          /\ \A a \in Range(anomaly_report.anomalies) :
                EmittedButForScores(a) /\ AggregatorFields \subseteq DOMAIN a
          /\ \A a \in Range(all_dedupe) : EmittedButForScores(a)

\* the report of a run in which deduplication dropped a finding holds two
\* scored anomalies
C24_Witness ==
    /\ anomaly_report.written
    /\ Len(anomaly_report.anomalies) >= 2
    /\ Len(all_raw) > Len(anomaly_report.anomalies)

\* ------------------------------------------------------------------------
\* Specification SpecLedger: the calls of call_openrouter a process makes,
\* one after the other, and the usage ledger they share
\* ------------------------------------------------------------------------
MaxCalls == 2

Tasks == {"hs_code_validation", "executive_summary"}

\* token counts as numbers, missing, or null
UsagePool ==
    {Usage(Count(12), Count(5)), NoUsage(40, 30),
     Usage(NullCount, Count(5)), Usage(Count(12), NullCount)}

LedgerText == TextResponse("bare", JNull)

InitLedger ==
    /\ pc = "llm_call"
    /\ api_key \in BOOLEAN
    /\ task_name \in Tasks
    /\ call_no = 1
    /\ usage_log = NewLedger
    /\ attempt = 0 /\ sleeps = <<>>
    /\ response = NoResponse /\ llm_anomalies = <<>>
    /\ shipments_df = <<>> /\ buyers_df = <<>>
    /\ DedupIdle /\ RuleIdle /\ AggIdle
    /\ raised = "none"
    /\ ExtraIdle

\* the caller takes the response and, later, the process calls again
CallAgain(task) ==
    /\ pc = "llm_response"
    /\ call_no < MaxCalls
    /\ call_no' = call_no + 1
    /\ task_name' = task
    /\ attempt' = 0 /\ sleeps' = <<>>
    /\ response' = NoResponse
    /\ pc' = "llm_call"
    /\ UNCHANGED <<api_key, usage_log, llmFrame>>

NextLedger ==
    \/ CallNoApiKey
    \/ \E usage \in UsagePool : AttemptSucceeds(LedgerText, usage)
    \/ \E status \in {429, 500} : AttemptHttpError(status)
    \/ AttemptException
    \/ \E usage \in UsagePool : AttemptLedgerUpdateRaises(usage)
    \/ \E task \in Tasks : CallAgain(task)

SpecLedger == InitLedger /\ [][NextLedger]_vars

CallsOf(log, task) ==
    IF task \in DOMAIN log.breakdown_by_task THEN log.breakdown_by_task[task].calls ELSE 0

TokensOf(log, task) ==
    IF task \in DOMAIN log.breakdown_by_task THEN log.breakdown_by_task[task].tokens ELSE 0

RECURSIVE SumCalls(_, _)
SumCalls(log, tasks) ==
    IF tasks = {} THEN 0
    ELSE LET t == CHOOSE t \in tasks : TRUE
         IN  CallsOf(log, t) + SumCalls(log, tasks \ {t})

\* the counters of the ledger
Counters(log) ==
    [total_calls |-> log.total_calls, input |-> log.input, output |-> log.output,
     total |-> log.total,
     calls |-> [t \in Tasks |-> CallsOf(log, t)],
     tokens |-> [t \in Tasks |-> TokensOf(log, t)]]

\* a step in which call_openrouter returns the text of a response
CallSucceeds == pc = "llm_call" /\ pc' = "llm_response" /\ response'.head # "[LLM"

\* C25: the usage ledger counts successful external calls only: a successful
\* call_openrouter call adds 1 to total_calls and to the calls of its task
\* and the input + output tokens of the call to total_tokens.total; a
\* failed attempt or an unavailable API key changes no counter; after any
\* sequence of calls total_calls is the sum of the calls of the tasks and
\* total_tokens.total = total_tokens.input + total_tokens.output.
C25_LedgerCountsSuccessfulCallsOnly ==
    /\ [](/\ usage_log.total_calls = SumCalls(usage_log, Tasks)
          /\ usage_log.total = usage_log.input + usage_log.output)
    /\ [][IF CallSucceeds
          THEN /\ usage_log'.total_calls = usage_log.total_calls + 1
               /\ CallsOf(usage_log', task_name) = CallsOf(usage_log, task_name) + 1
               /\ usage_log'.total - usage_log.total =
                      (usage_log'.input - usage_log.input)
                          + (usage_log'.output - usage_log.output)
          ELSE Counters(usage_log') = Counters(usage_log)]_vars

DistinctIds(list) ==
    \A i, j \in 1..Len(list) : i # j => list[i].anomaly_id # list[j].anomaly_id

\* C26: in the merged anomaly list of a run no two anomalies share an
\* anomaly_id: identifiers are a layer-prefixed sequence and every anomaly
\* a layer emits, each of several shipments affected by one verdict of the
\* external reasoning included, gets its own sequence number.  Stated of
\* the part of the merged list that validate_hs_codes returns.
C26_AnomalyIdsAreDistinct ==
    pc = "llm_done" =>
        /\ DistinctIds(llm_anomalies)
        /\ \A i \in 1..Len(llm_anomalies) : llm_anomalies[i].anomaly_id[1] = "LLM-"

\* the final report holds the finding, every field its layer set unchanged
InFinalReport(a) ==
    \E r \in Range(anomaly_report.anomalies) : KeepsOriginalFields(r, a)

\* C27: deduplication discards a finding only when a finding of a
\* different, higher-priority layer with the same key is kept; findings of
\* one layer are all retained, so every buyer-month volume spike of the
\* statistical layer (all months of a buyer keyed MULTI-<buyer> with
\* sub_type buyer_volume_spike) appears in the final report.
C27_OnlyHigherLayerDisplaces ==
    AnomalyReportWritten =>
        /\ \A a \in Range(all_raw) :
               ~InFinalReport(a) =>
                   \E r \in Range(anomaly_report.anomalies) :
                       /\ Key(r) = Key(a)
                       /\ r.layer # a.layer
                       /\ Priority(r.layer) > Priority(a.layer)
        /\ \A a \in Range(stat_anomalies) :
               a.sub_type = "buyer_volume_spike" => InFinalReport(a)

\* ------------------------------------------------------------------------
\* Specification SpecAnalysis: step 5 of app.run_full_analysis, from the
\* three layers' results to the return of run_full_pipeline
\* ------------------------------------------------------------------------
\* generate_executive_summary(anomaly_report) up to its prompt:
\* total = len(anomalies), total_penalty = sum of estimated_penalty_usd
PromptTotals(anomalies) ==
    [built |-> TRUE, total |-> Len(anomalies), total_penalty |-> SumPenalty(anomalies, 1)]

InitAnalysis ==
    /\ pc = "analysis_step5"
    /\ rule_anomalies \in SeqsUpTo(RulePool, MaxPerLayer)
    /\ stat_anomalies \in SeqsUpTo(StatPool, MaxPerLayer)
    /\ llm_anomalies \in SeqsUpTo(LlmPool, MaxPerLayer)
    /\ planted_file \in PipelineManifests
    /\ all_raw = <<>> /\ all_dedupe = <<>>
    /\ shipments_df = <<>> /\ buyers_df = <<>>
    /\ api_key = FALSE /\ attempt = 0 /\ sleeps = <<>> /\ response = NoResponse
    /\ usage_log = NewLedger /\ task_name = "" /\ call_no = 0
    /\ anomaly_report = NoReport /\ accuracy_report = NoReport /\ files = {}
    /\ raised = "none"
    /\ ExtraIdle

\* all_anomalies = rule + stat + llm; temp_report = {"anomalies":
\* all_anomalies}; exec_summary = generate_executive_summary(temp_report).
\* No API key is set, so call_openrouter returns its sentinel after
\* _ensure_task_exists and the summary is the fallback text.
AnalysisExecutiveSummary ==
    /\ pc = "analysis_step5"
    /\ summary_prompt' =
           PromptTotals(rule_anomalies \o stat_anomalies \o llm_anomalies)
    /\ usage_log' = Ensured(usage_log, "executive_summary")
    /\ pc' = "analysis_summarised"
    /\ UNCHANGED <<tableVars, zVars, dedupVars, rule_anomalies, stat_anomalies,
                   llm_anomalies, api_key, attempt, sleeps, response, task_name, call_no,
                   planted_file, anomaly_report, accuracy_report, files, raised>>

\* save_llm_usage_report(), then run_full_pipeline is entered
AnalysisSaveUsageReport ==
    /\ pc = "analysis_summarised"
    /\ files' = files \cup {"llm_usage_report.json"}
    /\ pc' = "pipe_start"
    /\ UNCHANGED <<pipeFrame, dedupVars, anomaly_report, accuracy_report, raised>>

NextAnalysis ==
    \/ AnalysisExecutiveSummary
    \/ AnalysisSaveUsageReport
    \/ PipelineDeduplicate
    \/ PipelineAnomalyReport
    \/ PipelineAccuracyReport
    \/ PipelineAccuracyRaises
    \/ PipelineSaveSummaryAndReturn

SpecAnalysis == InitAnalysis /\ [][NextAnalysis]_vars

\* C28: the narrative summary is built from the same anomalies as the
\* anomaly report of the run: the anomaly total and the total penalty in
\* the prompt of generate_executive_summary equal total_anomalies and
\* total_estimated_penalty_usd of the persisted report, also when the same
\* (shipment_id, sub_type) key was reported twice.
C28_SummaryTotalsEqualReportTotals ==
    (anomaly_report.written /\ summary_prompt.built) =>
        /\ summary_prompt.total = anomaly_report.total_anomalies
        /\ summary_prompt.total_penalty = anomaly_report.total_estimated_penalty_usd

RECURSIVE Gcd(_, _)
Gcd(a, b) == IF b = 0 THEN a ELSE Gcd(b, a % b)

\* the square of a Z-score in lowest terms
Lowest(z) ==
    LET g == Gcd(z.num, z.den)
    IN  [num |-> z.num \div g, den |-> z.den \div g]

\* |Z| <= (n - 1) / sqrt(n) for every member of a group of n values
WithinSampleBound(xs) ==
    LET n == Len(xs)
        z == zscore(xs)
    IN  \A i \in 1..n :
            LET q == Lowest(z[i])
            IN  q.num * n <= (n - 1) * (n - 1) * q.den

NoneOverThreshold(xs) ==
    LET z == zscore(xs)
    IN  \A i \in 1..Len(xs) : ~ZAbsOver(z[i], z_threshold)

ThreeToEight(n) == n >= 3 /\ n <= 8

\* the bound holds of the group, and a group of 3 to 8 has no |Z| > 2.5
BoundedScan(xs) ==
    /\ WithinSampleBound(xs)
    /\ ThreeToEight(Len(xs)) => NoneOverThreshold(xs)

\* the groups df.groupby(fields) makes of the table
GroupsBy(fields) == {SameOn(row, fields) : row \in Range(shipments_df)}

PaidDays(rows) == [i \in 1..Len(rows) |-> rows[i].days_to_payment[1]]

\* With exact arithmetic no member of a group of n values has |Z| above
\* (n-1)/sqrt(n), and the price, transit-time, freight, payment-delay and
\* monthly-volume scans emit nothing for a member of a group of 3 to 8.
ExactScansEmitNothingUpToEight ==
    StatDone =>
        /\ \A product \in GroupsBy({"product_description"}) :
               /\ BoundedScan(Column(product, "unit_price_usd"))
               /\ ThreeToEight(Len(product)) => NoneFlagged(product, "price_outlier")
        /\ \A route \in GroupsBy(Route) :
               /\ BoundedScan(Column(route, "transit_days"))
               /\ ThreeToEight(Len(route)) => NoneFlagged(route, "transit_days_outlier")
        /\ \A lane \in GroupsBy(Route \cup {"container_type"}) :
               LET freight == SelectSeq(lane, LAMBDA r : r.freight_cost_usd > 0)
               IN  /\ BoundedScan(Column(freight, "freight_cost_usd"))
                   /\ ThreeToEight(Len(freight)) =>
                          NoneFlagged(freight, "freight_cost_outlier")
        /\ \A buyer \in GroupsBy({"buyer_name"}) :
               LET paid == PaidRows(buyer)
               IN  /\ BoundedScan(PaidDays(paid))
                   /\ ThreeToEight(Len(paid)) => NoneFlagged(paid, "payment_delay")
                   /\ BoundedScan(MonthlyFob(buyer))
                   /\ ThreeToEight(MonthCount(buyer)) =>
                          \A a \in Range(AnomaliesOf("buyer_volume_spike")) :
                              a.shipment_id # <<"MULTI-", buyer[1].buyer_name.first10>>
        /\ \A country \in GroupsBy({"buyer_country"}) :
               /\ BoundedScan(MonthlyFob(country))
               /\ ThreeToEight(MonthCount(country)) =>
                      \A a \in Range(AnomaliesOf("country_volume_spike")) :
                          a.shipment_id[2][1] # country[1].buyer_country.first5

\* C29: zscore divides by the sample standard deviation, so no member of a
\* group of n values has |Z| above (n-1)/sqrt(n); with the default
\* threshold 2.5 no value of a group of 3 to 8 members has |Z| > 2.5,
\* whatever the values are, and the scans emit nothing for such a group.
C29_NoValueOfThreeToEightOverThreshold ==
    ZscoreDone =>
        LET n == Len(series)
        IN  /\ \A i \in 1..Len(zscores) :
                   LET q == Lowest(zscores[i])
                   IN  q.num * n <= (n - 1) * (n - 1) * q.den
            /\ ThreeToEight(n) =>
                   \A i \in 1..Len(zscores) : ~ZAbsOver(zscores[i], z_threshold)

====
